---- MODULE Spec2Model ----
(***************************************************************************)
(* Harphonium audio core: the event coalescer, the FunDSPSynth parameter   *)
(* cells and graph edits, and the render callback (src-tauri/src/audio).   *)
(*                                                                         *)
(* f32 values are modelled as integers in thousandths (0.001 -> 1,         *)
(* 1.0 -> 1000, 440 Hz -> 440000), plus the three non-finite values.       *)
(***************************************************************************)
EXTENDS Integers, Sequences, FiniteSets, TLC

\* ---------------------------------------------------------------- f32
\* The non-finite f32 values; the infinities order as the extreme numbers,
\* NaN takes part in no ordering (every comparison with it is false).
PosInf == 2000000000
NegInf == -2000000000
NaN == 2000000001

IsNaN(x) == x = NaN
IsFinite(x) == x # NaN /\ x # PosInf /\ x # NegInf
FLt(a, b) == ~IsNaN(a) /\ ~IsNaN(b) /\ a < b
FGt(a, b) == ~IsNaN(a) /\ ~IsNaN(b) /\ a > b
FLe(a, b) == ~IsNaN(a) /\ ~IsNaN(b) /\ a <= b

\* Variant: the lower bound is not applied.
clamp_nolower(x, min, max) == IF FGt(x, max) THEN max ELSE x
\* f32::clamp: `if self < min { self = min } if self > max { self = max } self`
clamp(x, min, max) ==
    LET y == IF FLt(x, min) THEN min ELSE x
    IN  IF FGt(y, max) THEN max ELSE y

\* ---------------------------------------------------------------- events
\* AudioEvent: kind is the variant, v its f32 payload (0 when it has none),
\* w its Waveform payload ("-" when it has none).
Ev(kind, v, w) == [kind |-> kind, v |-> v, w |-> w]
NoEvent == Ev("None", 0, "-")

Waveforms == {"Sine", "Square", "Sawtooth", "Triangle"}

F32Kinds == {"SetFrequency", "SetMasterVolume", "SetAttack", "SetDecay",
             "SetSustain", "SetRelease", "SetDelayTime", "SetDelayFeedback",
             "SetDelayMix", "SetFilterCutoff", "SetFilterResonance"}
ContinuousKinds == F32Kinds \cup {"SetWaveform"}
QueryKinds == {"GetMasterVolume", "GetWaveform", "GetAttack", "GetDecay",
               "GetSustain", "GetRelease", "GetDelayTime", "GetDelayFeedback",
               "GetDelayMix", "GetFilterCutoff", "GetFilterResonance"}
DiscreteKinds == {"PlayNote", "NoteOff"} \cup QueryKinds

\* ---------------------------------------------------------------- bounds
\* Longest burst drawn for one drain call.
MaxBurst == 2
\* Number of direct handle_event calls in one behaviour of SpecHandle.
MaxCalls == 2
\* Capacity of the event ring buffer.
QueueCap == 2
\* Most events one drain call pops while the producer keeps pushing.
MaxDrain == 3
\* Events the producer pushes in one behaviour of SpecQueue.
MaxPush == 3
\* Most runs of AudioEngine::new in one behaviour of SpecInit.
MaxNew == 3
\* Most failed restarts the keeper thread's log is followed for.
MaxLogged == 2
\* Longest output slice handed to fill_buffer.
MaxOutLen == 3
\* fundsp's MAX_BUFFER_SIZE (64 in the library), scaled down.
MAX_BUFFER_SIZE == 2
\* nativePlayNote calls in one behaviour of SpecCallback.
MaxTriggers == 1
\* Longest `frames` slice handed to on_audio_ready.
MaxFrames == 1
\* Most stores of the JNI thread that are issued and not yet visible.
MaxBuffered == 2

VARIABLES
    synth,                \* the FunDSPSynth object
    last,                 \* the last direct handle_event call: event, result, synth before it
    ncalls,               \* direct handle_event calls made so far
    queue,                \* the rtrb ring buffer feeding event_consumer
    rpc,                  \* position of the render context inside fill_buffer
    last_events,          \* drain_and_coalesce_events: the HashMap local
    passthrough_events,   \* drain_and_coalesce_events: the Vec local
    popped,               \* events popped so far by the current drain call
    events,               \* the Vec returned by drain_and_coalesce_events
    ei,                   \* index in events of the next event of fill_buffer's for loop
    block,                \* the samples backend.process has rendered for this call, chunk after chunk
    output,               \* the samples fill_buffer has written to its output slice
    outlen,               \* output.len() of the fill_buffer call in progress
    mutex,                \* holder of the Mutex<FunDSPSynth> of AudioEngine
    cpc,                  \* position of the control context inside AudioEngine::set_waveform
    cw,                   \* the waveform argument of that call
    \* The producer's view of the queue and the record of what became of its events.
    pushres,              \* what the last Producer::push returned
    pushed,               \* the events pushed successfully, in push order
    taken,                \* the events consumer.pop() has returned, in pop order
    handled,              \* the events fill_buffer has passed to handle_event, in call order
    pending,              \* the queue as it was when the fill_buffer call in progress began to drain
    hbase,                \* Len(handled) when that call began
    edits,                \* the Net edits the handlers have made since that call began
    \* The command layer: one call of an entry point that takes a waveform name.
    engine,               \* AUDIO_ENGINE, the OnceLock<AudioEngine>: "unset" or "set"
    arg,                  \* the waveform name the entry points are called with
    afn,                  \* the entry point of the call in progress
    apc,                  \* its position
    aw,                   \* its local `waveform`, the parsed name
    ares,                 \* what the last call returned (or that it panicked)
    issued,               \* the SetWaveform requests that call passed on to the engine
    \* The Android stream negotiation, initialize_audio_engine.
    npc,                  \* its position: the strategy under way, the checks between, the end
    ri,                   \* index in sample_rates of the outer loop
    bi,                   \* index in buffer_sizes of the inner loop
    stream,               \* the local `stream`: the open stream kept, or NoStream
    best_latency,         \* the local `best_latency`
    final_sample_rate,    \* the local `final_sample_rate`
    attempt,              \* the entry pushed last to attempt_info
    nattempts,            \* attempt_info.len()
    nok,                  \* the entries of attempt_info that record a successful open
    opened,               \* per strategy, the realized latencies of the opens that succeeded
    nres,                 \* what initialize_audio_engine returned
    live,                 \* the oboe streams that are open: opened and not dropped
    \* The stream keeper thread spawned by initialize_audio_engine.
    kpc,                  \* its position in the loop
    kstate,               \* the state its last stream.get_state() returned
    sstate,               \* the state of the stream
    kfailed,              \* the "Failed to restart stream" lines it has printed
    \* Concurrent callers of the audio module's entry points.
    ipc,                  \* per caller, its position in the entry point it called
    ifn,                  \* per caller, that entry point
    ires,                 \* per caller, what its last call returned
    nnew,                 \* the runs of AudioEngine::new so far
    nstarted,             \* the platform audio streams started so far
    \* The Android output callback and the JNI note triggers.
    is_playing,           \* the AtomicBool, with the nativePlayNote call that stored it
    frequency_bits,       \* the AtomicU32, with the nativePlayNote call that stored it
    sbuf,                 \* the JNI thread's Relaxed stores that are not yet visible to the callback
    jpc,                  \* position of the JNI thread inside nativePlayNote
    ntrig,                \* nativePlayNote calls begun so far
    callback,             \* the AudioCallback object
    opc,                  \* position of on_audio_ready
    playing,              \* on_audio_ready's local `playing` while it runs
    cb_frames,            \* the samples the last on_audio_ready wrote to `frames`
    ran                   \* the path the last on_audio_ready took

callVars == <<last, ncalls>>
bufVars == <<block, output, outlen>>
ctlVars == <<mutex, cpc, cw>>
engineVars == <<synth, last, ncalls, queue, rpc, last_events, passthrough_events,
                popped, events, ei, block, output, outlen, mutex, cpc, cw>>
histVars == <<pushres, pushed, taken, handled, pending, hbase, edits>>
apiVars == <<engine, arg, afn, apc, aw, ares, issued>>
\* The variables the engine's own steps leave alone, those the queue's
\* steps, the command layer's steps and the negotiation's steps leave alone.
negVars == <<npc, ri, bi, stream, best_latency, final_sample_rate, attempt, nattempts,
            nok, opened, nres, live>>
keepVars == <<kpc, kstate, sstate, kfailed>>
initVars == <<ipc, ifn, ires, nnew, nstarted>>
cbVars == <<is_playing, frequency_bits, sbuf, jpc, ntrig, callback, opc, playing, cb_frames, ran>>
restVars == <<histVars, apiVars, negVars, keepVars, initVars, cbVars>>
notQueue == <<apiVars, negVars, keepVars, initVars, cbVars>>
notApi == <<last, ncalls, rpc, last_events, passthrough_events, popped, events, ei,
            bufVars, ctlVars, histVars, negVars, keepVars, initVars, cbVars>>
notNeg == <<engineVars, histVars, apiVars, keepVars, initVars, cbVars>>
notKeep == <<engineVars, histVars, apiVars, negVars, initVars, cbVars>>
notCb == <<engineVars, histVars, apiVars, negVars, keepVars, initVars>>
notInit == <<last, ncalls, queue, rpc, last_events, passthrough_events, popped, events, ei,
             bufVars, ctlVars, histVars, arg, afn, apc, aw, ares, issued, negVars, keepVars,
             cbVars>>
vars == <<engineVars, restVars>>

\* ---------------------------------------------------------------- Net
\* Net frontend edits: replace swaps the unit of one node and leaves the edit
\* uncommitted; commit publishes the frontend's nodes to the backend.
\* net.log lists the edits made by the handler call in progress.
replace(s, node, unit) ==
    [s EXCEPT !.net[node] = unit,
              !.net.uncommitted = TRUE,
              !.net.log = Append(@, "replace_" \o node)]

commit(s) ==
    [s EXCEPT !.backend = [osc |-> s.net.osc, adsr |-> s.net.adsr, delay |-> s.net.delay],
              !.net.uncommitted = FALSE,
              !.net.log = Append(@, "commit")]

create_oscillator(w) ==
    CASE w = "Sine" -> "sine"
      [] w = "Square" -> "square"
      [] w = "Sawtooth" -> "saw"
      [] w = "Triangle" -> "triangle"

adsr_live(attack, decay, sustain, release) == <<attack, decay, sustain, release>>
delay(t) == t

\* FunDSPSynth::new: the shared cells' defaults, the graph built from them,
\* and the backend taken from the net.
SynthNew ==
    [net |-> [osc |-> create_oscillator("Sine"),
              adsr |-> adsr_live(20, 200, 600, 300),
              delay |-> delay(300),
              uncommitted |-> FALSE,
              log |-> <<>>],
     backend |-> [osc |-> create_oscillator("Sine"),
                  adsr |-> adsr_live(20, 200, 600, 300),
                  delay |-> delay(300)],
     current_waveform |-> "Sine",
     frequency_var |-> 440000,
     key_down_var |-> 0,
     master_volume_var |-> 700,
     attack_var |-> 20,
     decay_var |-> 200,
     sustain_var |-> 600,
     release_var |-> 300,
     delay_time_var |-> 300,
     delay_feedback_var |-> 400,
     delay_mix_var |-> 200,
     filter_cutoff_var |-> 1000000,
     filter_resonance_var |-> 100,
     enabled |-> TRUE]

\* ---------------------------------------------------------------- FunDSPSynth methods
set_waveform_replace(s, new_waveform) ==
    replace(s, "osc", create_oscillator(new_waveform))
set_waveform_store(s, new_waveform) ==
    [s EXCEPT !.current_waveform = new_waveform]
\* Variant: no early return when the waveform is already current.
set_waveform_always(s, new_waveform) ==
    IF ~s.enabled
    THEN s
    ELSE set_waveform_store(commit(set_waveform_replace(s, new_waveform)), new_waveform)
set_waveform(s, new_waveform) ==
    IF new_waveform = s.current_waveform \/ ~s.enabled
    THEN s
    ELSE set_waveform_store(commit(set_waveform_replace(s, new_waveform)), new_waveform)

get_waveform(s) == s.current_waveform

play_note(s, frequency) ==
    IF s.enabled
    THEN [s EXCEPT !.frequency_var = frequency, !.key_down_var = 1000]
    ELSE s

\* Variant: the gate is raised as in play_note.
set_frequency_retrigger(s, frequency) ==
    IF s.enabled
    THEN [s EXCEPT !.frequency_var = frequency, !.key_down_var = 1000]
    ELSE s
set_frequency(s, frequency) ==
    IF s.enabled THEN [s EXCEPT !.frequency_var = frequency] ELSE s

\* Variant: the gate is toggled instead of lowered.
note_off_toggle(s) ==
    IF s.enabled THEN [s EXCEPT !.key_down_var = 1000 - @] ELSE s
note_off(s) ==
    IF s.enabled THEN [s EXCEPT !.key_down_var = 0] ELSE s

set_master_volume(s, volume) ==
    LET clamped_volume == clamp(volume, 0, 1000)
    IN  IF s.enabled THEN [s EXCEPT !.master_volume_var = clamped_volume] ELSE s
\* Variant: the construction default is returned, not the cell.
get_master_volume_default(s) == 700
get_master_volume(s) == s.master_volume_var

\* Variant: the commit after the replace is left out.
set_adsr_uncommitted(s) ==
    IF ~s.enabled
    THEN s
    ELSE replace(s, "adsr",
                 adsr_live(s.attack_var, s.decay_var, s.sustain_var, s.release_var))
set_adsr(s) ==
    IF ~s.enabled
    THEN s
    ELSE commit(replace(s, "adsr",
                        adsr_live(s.attack_var, s.decay_var, s.sustain_var, s.release_var)))

set_attack(s, attack) ==
    set_adsr([s EXCEPT !.attack_var = clamp(attack, 1, 5000)])
get_attack(s) == s.attack_var

set_decay(s, decay) ==
    set_adsr([s EXCEPT !.decay_var = clamp(decay, 1, 5000)])
get_decay(s) == s.decay_var

set_sustain(s, sustain) ==
    set_adsr([s EXCEPT !.sustain_var = clamp(sustain, 0, 1000)])
get_sustain(s) == s.sustain_var

set_release(s, release) ==
    set_adsr([s EXCEPT !.release_var = clamp(release, 1, 10000)])
get_release(s) == s.release_var

\* Variant: the delay node is built from the argument, not from the cell.
set_delay_time_raw(s, delay_time) ==
    IF ~s.enabled
    THEN s
    ELSE LET s1 == [s EXCEPT !.delay_time_var = clamp(delay_time, 0, 5000)]
         IN  commit(replace(s1, "delay", delay(delay_time)))
set_delay_time(s, delay_time) ==
    IF ~s.enabled
    THEN s
    ELSE LET s1 == [s EXCEPT !.delay_time_var = clamp(delay_time, 0, 5000)]
         IN  commit(replace(s1, "delay", delay(s1.delay_time_var)))
get_delay_time(s) == s.delay_time_var

set_delay_feedback(s, feedback) ==
    IF ~s.enabled THEN s ELSE [s EXCEPT !.delay_feedback_var = clamp(feedback, 0, 1000)]
get_delay_feedback(s) == s.delay_feedback_var

set_delay_mix(s, delay_mix) ==
    [s EXCEPT !.delay_mix_var = clamp(delay_mix, 0, 1000)]
get_delay_mix(s) == s.delay_mix_var

set_filter_cutoff(s, cutoff) ==
    IF ~s.enabled THEN s ELSE [s EXCEPT !.filter_cutoff_var = clamp(cutoff, 20000, 20000000)]
get_filter_cutoff(s) == s.filter_cutoff_var

set_filter_resonance(s, resonance) ==
    IF ~s.enabled THEN s ELSE [s EXCEPT !.filter_resonance_var = clamp(resonance, 0, 1000)]
get_filter_resonance(s) == s.filter_resonance_var

\* AudioEventResult
ResultOk == [tag |-> "Ok", v |-> 0, w |-> "-"]
ValueF32(x) == [tag |-> "ValueF32", v |-> x, w |-> "-"]
ValueWaveform(x) == [tag |-> "ValueWaveform", v |-> 0, w |-> x]
NoResult == [tag |-> "None", v |-> 0, w |-> "-"]

Done(s, r) == [synth |-> s, result |-> r]

\* FunDSPSynth::handle_event: the new synth and the returned AudioEventResult.
handle_event(s, event) ==
    CASE event.kind = "PlayNote" -> Done(play_note(s, event.v), ResultOk)
      [] event.kind = "SetFrequency" -> Done(set_frequency(s, event.v), ResultOk)
      [] event.kind = "NoteOff" -> Done(note_off(s), ResultOk)
      [] event.kind = "SetMasterVolume" -> Done(set_master_volume(s, event.v), ResultOk)
      [] event.kind = "SetWaveform" -> Done(set_waveform(s, event.w), ResultOk)
      [] event.kind = "SetAttack" -> Done(set_attack(s, event.v), ResultOk)
      [] event.kind = "SetDecay" -> Done(set_decay(s, event.v), ResultOk)
      [] event.kind = "SetSustain" -> Done(set_sustain(s, event.v), ResultOk)
      [] event.kind = "SetRelease" -> Done(set_release(s, event.v), ResultOk)
      [] event.kind = "SetDelayTime" -> Done(set_delay_time(s, event.v), ResultOk)
      [] event.kind = "SetDelayFeedback" -> Done(set_delay_feedback(s, event.v), ResultOk)
      [] event.kind = "SetDelayMix" -> Done(set_delay_mix(s, event.v), ResultOk)
      [] event.kind = "SetFilterCutoff" -> Done(set_filter_cutoff(s, event.v), ResultOk)
      [] event.kind = "SetFilterResonance" -> Done(set_filter_resonance(s, event.v), ResultOk)
      [] event.kind = "GetMasterVolume" -> Done(s, ValueF32(get_master_volume(s)))
      [] event.kind = "GetWaveform" -> Done(s, ValueWaveform(get_waveform(s)))
      [] event.kind = "GetAttack" -> Done(s, ValueF32(get_attack(s)))
      [] event.kind = "GetDecay" -> Done(s, ValueF32(get_decay(s)))
      [] event.kind = "GetSustain" -> Done(s, ValueF32(get_sustain(s)))
      [] event.kind = "GetRelease" -> Done(s, ValueF32(get_release(s)))
      [] event.kind = "GetDelayTime" -> Done(s, ValueF32(get_delay_time(s)))
      [] event.kind = "GetDelayFeedback" -> Done(s, ValueF32(get_delay_feedback(s)))
      [] event.kind = "GetDelayMix" -> Done(s, ValueF32(get_delay_mix(s)))
      [] event.kind = "GetFilterCutoff" -> Done(s, ValueF32(get_filter_cutoff(s)))
      [] event.kind = "GetFilterResonance" -> Done(s, ValueF32(get_filter_resonance(s)))

\* A handler call starts with an empty edit log.
FreshLog(s) == [s EXCEPT !.net.log = <<>>]

\* ---------------------------------------------------------------- coalescer
\* The key under which drain_and_coalesce_events files an event in last_events
\* ("" for the events of the catch-all arm, which go to passthrough_events).
\* Variant: every event goes to passthrough_events.
CoalesceKey_none(kind) == ""
CoalesceKey(kind) ==
    CASE kind = "SetFrequency" -> "SetFrequency"
      [] kind = "SetMasterVolume" -> "SetMasterVolume"
      [] kind = "SetWaveform" -> "SetWaveform"
      [] kind = "SetAttack" -> "SetAttack"
      [] kind = "SetDecay" -> "SetDecay"
      [] kind = "SetSustain" -> "SetSustain"
      [] kind = "SetRelease" -> "SetRelease"
      [] kind = "SetDelayTime" -> "SetDelayTime"
      [] kind = "SetDelayFeedback" -> "SetDelayFeedback"
      [] kind = "SetDelayMix" -> "SetDelayMix"
      [] kind = "SetFilterCutoff" -> "SetFilterCutoff"
      [] kind = "SetFilterResonance" -> "SetFilterResonance"
      [] OTHER -> ""

Keys == {"SetFrequency", "SetMasterVolume", "SetWaveform", "SetAttack", "SetDecay",
         "SetSustain", "SetRelease", "SetDelayTime", "SetDelayFeedback", "SetDelayMix",
         "SetFilterCutoff", "SetFilterResonance"}

\* HashMap::new(): no key holds an event.
EmptyMap == [k \in Keys |-> NoEvent]

\* HashMap::insert keeps one event per key: the one inserted last.
\* Variant: an occupied key keeps its first event.
insert_keep_first(m, k, event) == IF m[k] = NoEvent THEN [m EXCEPT ![k] = event] ELSE m
insert(m, k, event) == [m EXCEPT ![k] = event]

\* HashMap::into_values: the held events, in an order the map does not promise.
Orders(S) ==
    {p \in [1..Cardinality(S) -> S] : \A a, b \in 1..Cardinality(S) : a # b => p[a] # p[b]}
into_values(m) ==
    {[n \in 1..Len(p) |-> m[p[n]]] : p \in Orders({k \in Keys : m[k] # NoEvent})}

\* Vec::push: the event goes to the end of the Vec.
\* Variant: the event goes to the front.
push_front(v, event) == <<event>> \o v
push(v, event) == Append(v, event)

\* Vec::extend: the tail goes after what the Vec already holds.
\* Variant: the tail goes before the Vec's contents.
extend_front(v, tail) == tail \o v
extend(v, tail) == v \o tail

\* ---------------------------------------------------------------- drain_and_coalesce_events
\* One iteration of `while let Ok(event) = consumer.pop()`.
RenderPop ==
    /\ rpc = "drain"
    /\ queue # <<>>
    /\ LET event == Head(queue)
           k == CoalesceKey(event.kind)
       IN  /\ queue' = Tail(queue)
           /\ popped' = Append(popped, event)
           /\ IF k # ""
              THEN /\ last_events' = insert(last_events, k, event)
                   /\ UNCHANGED passthrough_events
              ELSE /\ passthrough_events' = push(passthrough_events, event)
                   /\ UNCHANGED last_events
    /\ UNCHANGED <<synth, rpc, events, ei, callVars, bufVars, ctlVars>>

\* consumer.pop() fails on the empty queue: the loop ends and the function
\* returns passthrough_events extended by last_events.into_values().
\* Variant: the loop may end while events are still queued.
RenderDrained_early ==
    /\ rpc = "drain"
    /\ \E tail \in into_values(last_events) :
           events' = extend(passthrough_events, tail)
    /\ ei' = 1
    /\ rpc' = "handle"
    /\ last_events' = EmptyMap
    /\ passthrough_events' = <<>>
    /\ UNCHANGED <<synth, queue, popped, callVars, bufVars, ctlVars>>
RenderDrained ==
    /\ rpc = "drain"
    /\ queue = <<>>
    /\ \E tail \in into_values(last_events) :
           events' = extend(passthrough_events, tail)
    /\ ei' = 1
    /\ rpc' = "handle"
    /\ last_events' = EmptyMap
    /\ passthrough_events' = <<>>
    /\ UNCHANGED <<synth, queue, popped, callVars, bufVars, ctlVars>>

\* ---------------------------------------------------------------- direct handler calls
\* The f32 payloads tried: NaN, below every domain, inside the domains,
\* above every domain, +inf.
F32Inputs == {NaN, -1000, 0, 500, 1500, 440000, PosInf}

HandleInputs ==
    {Ev(k, v, "-") : k \in F32Kinds \cup {"PlayNote"}, v \in F32Inputs}
    \cup {Ev("SetWaveform", 0, w) : w \in Waveforms}
    \cup {Ev(k, 0, "-") : k \in QueryKinds \cup {"NoteOff"}}

\* One call of FunDSPSynth::handle_event on the synth, outside fill_buffer.
CallHandleEvent ==
    /\ rpc = "idle"
    /\ ncalls < MaxCalls
    /\ \E event \in HandleInputs :
          LET r == handle_event(FreshLog(synth), event)
          IN  /\ synth' = r.synth
              /\ last' = [event |-> event, result |-> r.result, before |-> synth]
    /\ ncalls' = ncalls + 1
    /\ UNCHANGED <<queue, rpc, last_events, passthrough_events, popped, events, ei,
                   bufVars, ctlVars>>

\* ---------------------------------------------------------------- stream negotiation (Android)
buffer_sizes == <<16, 24, 32, 48, 64>>
sample_rates == <<48000, 44100>>
\* f32::MAX, the initial best_latency.
F32_MAX == 1999999999

\* What open_stream() may answer: Err, or a stream whose frames per callback
\* and sample rate are the backend's choice, not necessarily those requested.
ActualFrames == {64, 180, 192}
ActualRates == {48000, 44100}
OpenErr == [ok |-> FALSE, frames |-> 0, rate |-> 0]
OpenOutcomes ==
    {OpenErr} \cup {[ok |-> TRUE, frames |-> f, rate |-> r] : f \in ActualFrames, r \in ActualRates}

\* Option<AudioStreamAsync>: None, or the stream opened by a strategy for a
\* requested rate and size, with the frames and rate it reports as realized.
NoStream == [strategy |-> 0, sample_rate |-> 0, buffer_size |-> 0, frames |-> 0, rate |-> 0]
StreamOf(strategy, sample_rate, buffer_size, out) ==
    [strategy |-> strategy, sample_rate |-> sample_rate, buffer_size |-> buffer_size,
     frames |-> out.frames, rate |-> out.rate]

\* (frames / rate) * 1000.0, in units of 1/7056 ms (7056000 is the least
\* common multiple of the two rates, so the quotient is exact).
latency_of(frames, rate) == frames * (7056000 \div rate)
\* `latency_ms`: computed from the stream's frames and the requested sample_rate.
\* Variant: computed from the sample rate the stream reports.
latency_ms_actual(out, sample_rate) == latency_of(out.frames, out.rate)
latency_ms(out, sample_rate) == latency_of(out.frames, sample_rate)

\* Drop of an AudioStreamAsync closes it: the stream leaves the open ones.
\* Variant: a dropped stream stays open.
drop_leak(open, s) == open
drop(open, s) == open \ {s}

\* An entry of attempt_info.
NoAttempt == [strategy |-> 0, sample_rate |-> 0, buffer_size |-> 0, ok |-> FALSE]
AttemptOf(strategy, sample_rate, buffer_size, out) ==
    [strategy |-> strategy, sample_rate |-> sample_rate, buffer_size |-> buffer_size,
     ok |-> out.ok]

\* ---------------------------------------------------------------- the Android callback's values
\* f32::to_bits and f32::from_bits: the integer that stands for a value's bit
\* pattern (one pattern per value), and the value of a pattern.
to_bits(x) == 0 - x - 1
from_bits(b) == 0 - (b + 1)

\* What an atomic holds, with the nativePlayNote call whose store it is
\* (0: the value set at creation, or a store of nativeStopNote).
Stored(v, by) == [v |-> v, by |-> by]

\* `envelope` is kept in units of 1/3528 and `phase` in eighths of a turn:
\* 1/3528 divides both fade steps, 1/24 (48000 Hz) and 20/441 (44100 Hz).
EnvelopeOne == 3528
PhaseOne == 8

\* `fade_step: 1.0 / (sample_rate as f32 * 0.0005)`
fade_step(sample_rate) == (EnvelopeOne * 2000) \div sample_rate

\* AudioCallback { .. } as initialize_audio_engine builds it.
AudioCallbackNew(sample_rate) ==
    [current_frequency |-> 440000,
     phase |-> 0,
     envelope |-> 0,
     sample_rate |-> sample_rate,
     fade_step |-> fade_step(sample_rate),
     use_fundsp |-> TRUE]

\* No callback has run yet.
NotRun == "none"

\* ---------------------------------------------------------------- callers of the audio module
\* The threads that call into the audio module (Tauri's command workers).
Callers == {1, 2}

\* Result<(), String>::Err with its message.
ErrResult(msg) == [tag |-> "Err", v |-> 0, w |-> msg]

\* The entry points that begin with initialize_audio(), with the call they
\* pass on to the engine (as the event handle_event routes to the same
\* method), and the entry points that only read AUDIO_ENGINE.
LazyEntryPoints == {"play_frequency", "set_master_volume", "set_waveform", "set_attack"}
Getters == {"get_master_volume", "get_waveform", "get_attack", "get_decay", "get_sustain",
            "get_release", "get_delay_time", "get_delay_feedback", "get_delay_mix"}
EntryPoints == LazyEntryPoints \cup {"stop_audio"} \cup Getters
\* The first caller calls any entry point; the second one plays notes.
CallsOf(t) == IF t = 1 THEN EntryPoints ELSE {"play_frequency"}

EngineCallOf(fn) ==
    CASE fn = "play_frequency" -> Ev("PlayNote", 880000, "-")
      [] fn = "stop_audio" -> Ev("NoteOff", 0, "-")
      [] fn = "set_master_volume" -> Ev("SetMasterVolume", 500, "-")
      [] fn = "set_waveform" -> Ev("SetWaveform", 0, "Square")
      [] fn = "set_attack" -> Ev("SetAttack", 100, "-")
      [] fn = "get_master_volume" -> Ev("GetMasterVolume", 0, "-")
      [] fn = "get_waveform" -> Ev("GetWaveform", 0, "-")
      [] fn = "get_attack" -> Ev("GetAttack", 0, "-")
      [] fn = "get_decay" -> Ev("GetDecay", 0, "-")
      [] fn = "get_sustain" -> Ev("GetSustain", 0, "-")
      [] fn = "get_release" -> Ev("GetRelease", 0, "-")
      [] fn = "get_delay_time" -> Ev("GetDelayTime", 0, "-")
      [] fn = "get_delay_feedback" -> Ev("GetDelayFeedback", 0, "-")
      [] fn = "get_delay_mix" -> Ev("GetDelayMix", 0, "-")

\* The `else` arm of `if let Some(engine) = AUDIO_ENGINE.get()`: the value an
\* entry point returns while no engine is set.
NotInitialized(fn) ==
    CASE fn = "get_master_volume" -> ValueF32(700)
      [] fn = "get_waveform" -> ValueWaveform("Sine")
      [] fn = "get_attack" -> ValueF32(20)
      [] fn = "get_decay" -> ValueF32(200)
      [] fn = "get_sustain" -> ValueF32(600)
      [] fn = "get_release" -> ValueF32(300)
      [] fn = "get_delay_time" -> ValueF32(500)
      [] fn = "get_delay_feedback" -> ValueF32(400)
      [] fn = "get_delay_mix" -> ValueF32(800)
      [] OTHER -> ErrResult("Audio engine not initialized")

\* ---------------------------------------------------------------- specifications
InitCommon ==
    /\ synth = SynthNew
    /\ last = [event |-> NoEvent, result |-> NoResult, before |-> SynthNew]
    /\ ncalls = 0
    /\ last_events = EmptyMap
    /\ passthrough_events = <<>>
    /\ popped = <<>>
    /\ events = <<>>
    /\ ei = 1
    /\ block = <<>>
    /\ output = <<>>
    /\ outlen = 0
    /\ mutex = "free"
    /\ cpc = "idle"
    /\ cw = "Sine"
    /\ pushres = "None"
    /\ pushed = <<>>
    /\ taken = <<>>
    /\ handled = <<>>
    /\ pending = <<>>
    /\ hbase = 0
    /\ edits = <<>>
    /\ engine = "unset"
    /\ afn = "-"
    /\ apc = "idle"
    /\ aw = "None"
    /\ ares = "None"
    /\ issued = <<>>
    /\ npc = "strategy1"
    /\ ri = 1
    /\ bi = 1
    /\ stream = NoStream
    /\ best_latency = F32_MAX
    /\ final_sample_rate = 48000
    /\ attempt = NoAttempt
    /\ nattempts = 0
    /\ nok = 0
    /\ opened = [k \in 1..3 |-> {}]
    /\ nres = "-"
    /\ live = {}
    /\ is_playing = Stored(FALSE, 0)
    /\ frequency_bits = Stored(to_bits(440000), 0)
    /\ sbuf = <<>>
    /\ jpc = "idle"
    /\ ntrig = 0
    /\ callback = AudioCallbackNew(sample_rates[1])
    /\ opc = "new"
    /\ playing = Stored(FALSE, 0)
    /\ cb_frames = <<>>
    /\ ran = NotRun
    /\ kpc = "loop"
    /\ kstate = "-"
    /\ sstate = "Started"
    /\ kfailed = 0
    /\ ipc = [t \in Callers |-> "idle"]
    /\ ifn = [t \in Callers |-> "-"]
    /\ ires = [t \in Callers |-> NoResult]
    /\ nnew = 0
    /\ nstarted = 0

\* The events a burst is drawn from: two payloads for every kind that has one.
BurstEvents ==
    {Ev(k, v, "-") : k \in F32Kinds \cup {"PlayNote"}, v \in {500, 900}}
    \cup {Ev("SetWaveform", 0, w) : w \in {"Square", "Sawtooth"}}
    \cup {Ev(k, 0, "-") : k \in QueryKinds \cup {"NoteOff"}}

Bursts == UNION {[1..n -> BurstEvents] : n \in 0..MaxBurst}

\* The burst of the coalescing test of the specification's section 8.
ExampleBurst ==
    <<Ev("SetMasterVolume", 200, "-"), Ev("PlayNote", 440000, "-"),
      Ev("SetMasterVolume", 500, "-"), Ev("SetMasterVolume", 900, "-")>>

\* One call of drain_and_coalesce_events on a queue holding a burst.
InitCoalesce ==
    /\ InitCommon
    /\ arg = <<>>
    /\ rpc = "drain"
    /\ queue \in Bursts \cup {ExampleBurst}

NextCoalesce ==
    \/ RenderPop /\ UNCHANGED restVars
    \/ RenderDrained /\ UNCHANGED restVars

SpecCoalesce == InitCoalesce /\ [][NextCoalesce]_vars

\* Any sequence of handle_event calls on a new synth.
InitHandle ==
    /\ InitCommon
    /\ arg = <<>>
    /\ rpc = "idle"
    /\ queue = <<>>

NextHandle == CallHandleEvent /\ UNCHANGED restVars

SpecHandle == InitHandle /\ [][NextHandle]_vars

\* ---------------------------------------------------------------- the running engine
\* The events the control side pushes while the engine runs.
SpecEvents ==
    {Ev("PlayNote", 880000, "-"), Ev("SetAttack", 100, "-"), Ev("SetWaveform", 0, "Square")}

\* The waveforms AudioEngine::set_waveform is called with.
CtlWaveforms == {"Sine", "Sawtooth"}

\* The samples backend.process may leave in the block: NaN, below -1,
\* inside [-1, 1], +inf.
BackendOut == {NaN, -1500, 500, PosInf}

\* Producer::push on the ring buffer: the event goes to the back when a slot is free.
Push ==
    /\ Len(queue) < QueueCap
    /\ Len(popped) + Len(queue) < MaxDrain
    /\ \E event \in SpecEvents : queue' = Append(queue, event)
    /\ UNCHANGED <<synth, rpc, last_events, passthrough_events, popped, events, ei,
                   callVars, bufVars, ctlVars>>

\* The platform invokes the render callback, which takes the synth mutex
\* without blocking and calls fill_buffer on a slice of some length.
RenderLock ==
    /\ rpc = "idle"
    /\ mutex = "free"
    /\ mutex' = "render"
    /\ rpc' = "fill"
    /\ block' = <<>>
    /\ output' = <<>>
    /\ \E len \in 0..MaxOutLen : outlen' = len
    /\ UNCHANGED <<synth, queue, last_events, passthrough_events, popped, events, ei,
                   callVars, cpc, cw>>

\* The callback finds the synth mutex held by a control context: the
\* non-blocking attempt fails and the buffer is filled with silence.
\* Variant: the callback waits for the guard (a blocking lock), taking no step.
RenderContended_blocking ==
    /\ rpc = "idle"
    /\ mutex = "control"
    /\ FALSE
    /\ UNCHANGED vars
RenderContended ==
    /\ rpc = "idle"
    /\ mutex = "control"
    /\ rpc' = "silent"
    /\ block' = <<>>
    /\ \E len \in 0..MaxOutLen :
          /\ outlen' = len
          /\ output' = [k \in 1..len |-> 0]
    /\ UNCHANGED <<synth, queue, last_events, passthrough_events, popped, events, ei,
                   callVars, ctlVars>>

\* The callback that emitted silence returns; it holds no guard.
RenderSilentReturn ==
    /\ rpc = "silent"
    /\ rpc' = "idle"
    /\ output' = <<>>
    /\ outlen' = 0
    /\ UNCHANGED <<synth, queue, last_events, passthrough_events, popped, events, ei,
                   callVars, block, ctlVars>>

\* fill_buffer entry: a disabled synth fills the slice with silence and
\* returns; an enabled one goes on to drain the queue.
FillBufferEnter ==
    /\ rpc = "fill"
    /\ IF ~synth.enabled
       THEN /\ output' = [k \in 1..outlen |-> 0]
            /\ rpc' = "return"
       ELSE /\ rpc' = "drain"
            /\ UNCHANGED output
    /\ UNCHANGED <<synth, queue, last_events, passthrough_events, popped, events, ei,
                   callVars, block, outlen, ctlVars>>

\* One iteration of `for event in events { self.handle_event(event); }`.
\* Variant: the loop does not advance, the event is handled again.
RenderHandle_repeat ==
    /\ rpc = "handle"
    /\ ei <= Len(events)
    /\ synth' = handle_event(FreshLog(synth), events[ei]).synth
    /\ UNCHANGED <<queue, rpc, last_events, passthrough_events, popped, events, ei,
                   callVars, bufVars, ctlVars>>
RenderHandle ==
    /\ rpc = "handle"
    /\ ei <= Len(events)
    /\ synth' = handle_event(FreshLog(synth), events[ei]).synth
    /\ ei' = ei + 1
    /\ UNCHANGED <<queue, rpc, last_events, passthrough_events, popped, events,
                   callVars, bufVars, ctlVars>>

\* The for loop ends: events is consumed and the chunk loop starts at i = 0.
RenderHandled ==
    /\ rpc = "handle"
    /\ ei > Len(events)
    /\ rpc' = "process"
    /\ events' = <<>>
    /\ popped' = <<>>
    /\ ei' = 1
    /\ UNCHANGED <<synth, queue, last_events, passthrough_events, callVars, bufVars, ctlVars>>

\* fill_buffer's index i: the samples written so far.
i == Len(output)
\* Variant: the first argument is taken as it is.
min_first(a, b) == a
min(a, b) == IF a < b THEN a ELSE b

\* One iteration of `while i < output.len()`: backend.process renders n
\* samples into the block and each is copied to the output through
\* clamp(-1.0, 1.0).
RenderProcess ==
    /\ rpc = "process"
    /\ i < outlen
    /\ LET n == min(outlen - i, MAX_BUFFER_SIZE)
       IN  \E ch \in [1..n -> BackendOut] :
              /\ block' = block \o ch
              /\ output' = output \o [k \in 1..n |-> clamp(ch[k], -1000, 1000)]
    /\ UNCHANGED <<synth, queue, rpc, last_events, passthrough_events, popped, events, ei,
                   callVars, outlen, ctlVars>>

\* The chunk loop ends (or the synth was disabled): fill_buffer returns, the
\* callback hands the buffer to the platform and drops the mutex guard.
RenderReturn ==
    /\ \/ rpc = "process" /\ i >= outlen
       \/ rpc = "return"
    /\ rpc' = "idle"
    /\ mutex' = "free"
    /\ block' = <<>>
    /\ output' = <<>>
    /\ outlen' = 0
    /\ UNCHANGED <<synth, queue, last_events, passthrough_events, popped, events, ei,
                   callVars, cpc, cw>>

\* AudioEngine::set_waveform: `self.synth.lock()`.
\* Variant: the call proceeds without taking the mutex.
CtlLock_unguarded ==
    /\ cpc = "idle"
    /\ cpc' = "locked"
    /\ \E w \in CtlWaveforms : cw' = w
    /\ UNCHANGED <<synth, queue, rpc, last_events, passthrough_events, popped, events, ei,
                   callVars, bufVars, mutex>>
CtlLock ==
    /\ cpc = "idle"
    /\ mutex = "free"
    /\ mutex' = "control"
    /\ cpc' = "locked"
    /\ \E w \in CtlWaveforms : cw' = w
    /\ UNCHANGED <<synth, queue, rpc, last_events, passthrough_events, popped, events, ei,
                   callVars, bufVars>>

\* synth.set_waveform(waveform) under the guard, up to Net::replace: the
\* early return when nothing changes, else the oscillator node is replaced.
CtlReplace ==
    /\ cpc = "locked"
    /\ IF cw = synth.current_waveform \/ ~synth.enabled
       THEN /\ cpc' = "done"
            /\ UNCHANGED synth
       ELSE /\ cpc' = "replaced"
            /\ synth' = set_waveform_replace(FreshLog(synth), cw)
    /\ UNCHANGED <<queue, rpc, last_events, passthrough_events, popped, events, ei,
                   callVars, bufVars, mutex, cw>>

\* synth.set_waveform(waveform), from Net::commit to its end.
CtlCommit ==
    /\ cpc = "replaced"
    /\ synth' = set_waveform_store(commit(synth), cw)
    /\ cpc' = "done"
    /\ UNCHANGED <<queue, rpc, last_events, passthrough_events, popped, events, ei,
                   callVars, bufVars, mutex, cw>>

\* AudioEngine::set_waveform returns Ok(()) and the guard is dropped.
CtlUnlock ==
    /\ cpc = "done"
    /\ mutex = "control"
    /\ mutex' = "free"
    /\ cpc' = "idle"
    /\ UNCHANGED <<synth, queue, rpc, last_events, passthrough_events, popped, events, ei,
                   callVars, bufVars, cw>>

Init ==
    /\ InitCommon
    /\ arg = <<>>
    /\ rpc = "idle"
    /\ queue = <<>>

Next ==
    \/ Push /\ UNCHANGED restVars
    \/ RenderLock /\ UNCHANGED restVars
    \/ RenderContended /\ UNCHANGED restVars
    \/ RenderSilentReturn /\ UNCHANGED restVars
    \/ FillBufferEnter /\ UNCHANGED restVars
    \/ RenderPop /\ UNCHANGED restVars
    \/ RenderDrained /\ UNCHANGED restVars
    \/ RenderHandle /\ UNCHANGED restVars
    \/ RenderHandled /\ UNCHANGED restVars
    \/ RenderProcess /\ UNCHANGED restVars
    \/ RenderReturn /\ UNCHANGED restVars
    \/ CtlLock /\ UNCHANGED restVars
    \/ CtlReplace /\ UNCHANGED restVars
    \/ CtlCommit /\ UNCHANGED restVars
    \/ CtlUnlock /\ UNCHANGED restVars

Spec == Init /\ [][Next]_vars

\* ---------------------------------------------------------------- the queue, end to end
\* The producer and the render callback alone, with the record of every
\* event's way through the queue: pushed, popped, handled.
\* The kinds the producer pushes here: one discrete, two coalesced.
QueueKinds == {"PlayNote", "SetFrequency", "SetMasterVolume"}
\* The n-th event pushed carries the payload n, which tells the events apart.
Tagged(kind, n) == Ev(kind, 1000 * n, "-")

\* Producer::push on a queue with a free slot: Ok(()), the event is at the back.
PushOk ==
    /\ Len(pushed) < MaxPush
    /\ Len(queue) < QueueCap
    /\ \E kind \in QueueKinds :
          LET event == Tagged(kind, Len(pushed) + 1)
          IN  /\ queue' = Append(queue, event)
              /\ pushed' = Append(pushed, event)
    /\ pushres' = "Ok"
    /\ UNCHANGED <<synth, rpc, last_events, passthrough_events, popped, events, ei,
                   callVars, bufVars, ctlVars, taken, handled, pending, hbase,
                   edits, notQueue>>

\* Producer::push on a full queue: Err(PushError::Full(event)) at once, the
\* event is handed back and nothing is written.
\* Variant: the oldest event is overwritten to make room.
PushFull_overwrite ==
    /\ Len(queue) = QueueCap
    /\ Len(pushed) < MaxPush
    /\ queue' = Append(Tail(queue), Tagged("PlayNote", Len(pushed) + 1))
    /\ pushres' = "Full"
    /\ UNCHANGED <<synth, rpc, last_events, passthrough_events, popped, events, ei,
                   callVars, bufVars, ctlVars, pushed, taken, handled, pending, hbase,
                   edits, notQueue>>
PushFull ==
    /\ Len(queue) = QueueCap
    /\ pushres' = "Full"
    /\ UNCHANGED <<synth, queue, rpc, last_events, passthrough_events, popped, events, ei,
                   callVars, bufVars, ctlVars, pushed, taken, handled, pending, hbase,
                   edits, notQueue>>

\* The render steps, with the record kept.
QueueFillBufferEnter ==
    /\ FillBufferEnter
    /\ pending' = queue
    /\ hbase' = Len(handled)
    /\ edits' = <<>>
    /\ UNCHANGED <<pushres, pushed, taken, handled, notQueue>>

QueueRenderPop ==
    /\ RenderPop
    /\ taken' = Append(taken, Head(queue))
    /\ UNCHANGED <<pushres, pushed, handled, pending, hbase, edits, notQueue>>

QueueRenderHandle ==
    /\ RenderHandle
    /\ handled' = Append(handled, events[ei])
    /\ edits' = edits \o synth'.net.log
    /\ UNCHANGED <<pushres, pushed, taken, pending, hbase, notQueue>>

\* The callback of this specification renders buffers of at most one sample.
QueueRenderLock ==
    /\ RenderLock
    /\ outlen' <= 1
    /\ UNCHANGED restVars

NextQueue ==
    \/ PushOk
    \/ PushFull
    \/ QueueRenderLock
    \/ QueueFillBufferEnter
    \/ QueueRenderPop
    \/ RenderDrained /\ UNCHANGED restVars
    \/ QueueRenderHandle
    \/ RenderHandled /\ UNCHANGED restVars
    \/ RenderProcess /\ UNCHANGED restVars
    \/ RenderReturn /\ UNCHANGED restVars

SpecQueue == Init /\ [][NextQueue]_vars

\* ---------------------------------------------------------------- the drain against a busy producer
\* A control context that pushes continuous events for as long as it likes.
SteadyEvents == {Ev(k, v, "-") : k \in {"SetFrequency", "SetMasterVolume"}, v \in {500, 900}}

\* Producer::push, with no limit on how many events are pushed over time.
SteadyPush ==
    /\ Len(queue) < QueueCap
    /\ \E event \in SteadyEvents : queue' = Append(queue, event)
    /\ UNCHANGED <<synth, rpc, last_events, passthrough_events, popped, events, ei,
                   callVars, bufVars, ctlVars, restVars>>

\* One iteration of `while let Ok(event) = consumer.pop()`, the events
\* popped not being recorded.
DrainPop ==
    /\ rpc = "drain"
    /\ queue # <<>>
    /\ LET event == Head(queue)
           k == CoalesceKey(event.kind)
       IN  /\ queue' = Tail(queue)
           /\ IF k # ""
              THEN /\ last_events' = insert(last_events, k, event)
                   /\ UNCHANGED passthrough_events
              ELSE /\ passthrough_events' = push(passthrough_events, event)
                   /\ UNCHANGED last_events
    /\ UNCHANGED <<synth, rpc, popped, events, ei, callVars, bufVars, ctlVars, restVars>>

\* The steps of the render callback, which the platform keeps invoking and
\* which runs on once invoked.
RenderProgress ==
    \/ QueueRenderLock
    \/ FillBufferEnter /\ UNCHANGED restVars
    \/ DrainPop
    \/ RenderDrained /\ UNCHANGED restVars
    \/ RenderHandle /\ UNCHANGED restVars
    \/ RenderHandled /\ UNCHANGED restVars
    \/ RenderProcess /\ UNCHANGED restVars
    \/ RenderReturn /\ UNCHANGED restVars

NextDrain ==
    \/ SteadyPush
    \/ QueueRenderLock
    \/ FillBufferEnter /\ UNCHANGED restVars
    \/ DrainPop
    \/ RenderDrained /\ UNCHANGED restVars
    \/ RenderHandle /\ UNCHANGED restVars
    \/ RenderHandled /\ UNCHANGED restVars
    \/ RenderProcess /\ UNCHANGED restVars
    \/ RenderReturn /\ UNCHANGED restVars

\* The render context always takes its next step; nothing is assumed of the producer.
SpecDrain == Init /\ [][NextDrain]_vars /\ WF_vars(RenderProgress)

\* ---------------------------------------------------------------- one buffer's events
\* A burst with two events of every kind that edits the graph.
EditBurst ==
    <<Ev("SetAttack", 500, "-"), Ev("SetWaveform", 0, "Square"), Ev("SetDecay", 500, "-"),
      Ev("SetDelayTime", 500, "-"), Ev("SetSustain", 500, "-"), Ev("SetRelease", 500, "-"),
      Ev("SetAttack", 900, "-"), Ev("SetWaveform", 0, "Sawtooth"), Ev("SetDecay", 900, "-"),
      Ev("SetDelayTime", 900, "-"), Ev("SetSustain", 900, "-"), Ev("SetRelease", 900, "-")>>

\* fill_buffer from its drain to the end of its for loop, on a queue holding
\* a burst, with the record of the events popped and handled and of the
\* edits made.
InitBuffer ==
    /\ InitCommon
    /\ arg = <<>>
    /\ rpc = "drain"
    /\ queue \in Bursts \cup {ExampleBurst, EditBurst}

NextBuffer ==
    \/ QueueRenderPop
    \/ RenderDrained /\ UNCHANGED restVars
    \/ QueueRenderHandle
    \/ RenderHandled /\ UNCHANGED restVars

SpecBuffer == InitBuffer /\ [][NextBuffer]_vars

\* ---------------------------------------------------------------- waveform names
\* A name is a sequence of characters. str::to_lowercase maps the upper-case
\* letters to their lower-case ones and leaves every other character.
LowerCase == <<"a", "b", "c", "d", "e", "f", "g", "h", "i", "j", "k", "l", "m",
               "n", "o", "p", "q", "r", "s", "t", "u", "v", "w", "x", "y", "z">>
UpperCase == <<"A", "B", "C", "D", "E", "F", "G", "H", "I", "J", "K", "L", "M",
               "N", "O", "P", "Q", "R", "S", "T", "U", "V", "W", "X", "Y", "Z">>
IsUpper(c) == \E n \in DOMAIN UpperCase : UpperCase[n] = c
IsLower(c) == \E n \in DOMAIN LowerCase : LowerCase[n] = c
to_lowercase_char(c) ==
    IF IsUpper(c) THEN LowerCase[CHOOSE n \in DOMAIN UpperCase : UpperCase[n] = c] ELSE c
to_uppercase_char(c) ==
    IF IsLower(c) THEN UpperCase[CHOOSE n \in DOMAIN LowerCase : LowerCase[n] = c] ELSE c
\* Variant: the name is compared as given.
to_lowercase_identity(str) == str
to_lowercase(str) == [n \in 1..Len(str) |-> to_lowercase_char(str[n])]

\* Option<Waveform>: a Waveform, or "None".
\* Waveform::from_str
from_str(str) ==
    LET lower == to_lowercase(str)
    IN  CASE lower = <<"s", "i", "n", "e">> -> "Sine"
          [] lower = <<"s", "q", "u", "a", "r", "e">> -> "Square"
          [] lower = <<"s", "a", "w", "t", "o", "o", "t", "h">> -> "Sawtooth"
          [] lower = <<"t", "r", "i", "a", "n", "g", "l", "e">> -> "Triangle"
          [] OTHER -> "None"

\* Waveform::as_str
\* Variant: Sawtooth is named "saw".
as_str_short(w) ==
    CASE w = "Sine" -> <<"s", "i", "n", "e">>
      [] w = "Square" -> <<"s", "q", "u", "a", "r", "e">>
      [] w = "Sawtooth" -> <<"s", "a", "w">>
      [] w = "Triangle" -> <<"t", "r", "i", "a", "n", "g", "l", "e">>
as_str(w) ==
    CASE w = "Sine" -> <<"s", "i", "n", "e">>
      [] w = "Square" -> <<"s", "q", "u", "a", "r", "e">>
      [] w = "Sawtooth" -> <<"s", "a", "w", "t", "o", "o", "t", "h">>
      [] w = "Triangle" -> <<"t", "r", "i", "a", "n", "g", "l", "e">>
\* The names tried: the four names in every mix of letter case, and strings
\* that are no name (empty, cut short, extended, padded, a digit for a letter).
CaseVariants(str) ==
    {[n \in 1..Len(str) |-> IF up[n] THEN to_uppercase_char(str[n]) ELSE str[n]] :
        up \in [1..Len(str) -> BOOLEAN]}
OtherNames ==
    {<<>>,
     <<"s", "i", "n">>,
     <<"s", "i", "n", "e", "s">>,
     <<"s", "a", "w">>,
     <<"t", "r", "i">>,
     <<"n", "o", "i", "s", "e">>,
     <<" ", "s", "i", "n", "e">>,
     <<"s", "i", "n", "e", " ">>,
     <<"s", "1", "n", "e">>,
     <<"s", "q", "u", "a", "r", "e", "w", "a", "v", "e">>,
     <<"S", "A", "W">>,
     <<"S", "i", "n">>}
NameInputs ==
    CaseVariants(<<"s", "i", "n", "e">>) \cup CaseVariants(<<"s", "q", "u", "a", "r", "e">>) \cup CaseVariants(<<"s", "a", "w", "t", "o", "o", "t", "h">>)
    \cup CaseVariants(<<"t", "r", "i", "a", "n", "g", "l", "e">>) \cup OtherNames

\* ---------------------------------------------------------------- the command layer
\* audio::set_waveform, first step: initialize_audio(). A set AUDIO_ENGINE is
\* left as it is; otherwise AudioEngine::new() runs and either yields the
\* engine, which is stored, or fails, and the call returns that failure.
AudioSetWaveformInit ==
    /\ apc = "idle"
    /\ afn' = "audio::set_waveform"
    /\ issued' = <<>>
    /\ \/ /\ engine = "set"
          /\ apc' = "parse"
          /\ UNCHANGED <<engine, ares>>
       \/ /\ engine = "unset"
          /\ engine' = "set"
          /\ apc' = "parse"
          /\ UNCHANGED ares
       \/ /\ engine = "unset"
          /\ ares' = "Err(Failed to initialize audio)"
          /\ apc' = "done"
          /\ UNCHANGED engine
    /\ UNCHANGED <<synth, queue, arg, aw, notApi>>

\* audio::set_waveform, `match Waveform::from_str(waveform_str)`.
AudioSetWaveformParse ==
    /\ apc = "parse"
    /\ afn = "audio::set_waveform"
    /\ aw' = from_str(arg)
    /\ IF from_str(arg) = "None"
       THEN /\ ares' = "Err(Invalid waveform)"
            /\ apc' = "done"
       ELSE /\ apc' = "apply"
            /\ UNCHANGED ares
    /\ UNCHANGED <<synth, queue, engine, arg, afn, issued, notApi>>

\* audio::set_waveform, engine.set_waveform(waveform): AudioEngine::set_waveform
\* locks the synth, calls FunDSPSynth::set_waveform and returns Ok(()).
AudioSetWaveformApply ==
    /\ apc = "apply"
    /\ afn = "audio::set_waveform"
    /\ mutex = "free"
    /\ synth' = set_waveform(FreshLog(synth), aw)
    /\ issued' = Append(issued, aw)
    /\ ares' = "Ok"
    /\ apc' = "done"
    /\ UNCHANGED <<queue, engine, arg, afn, aw, notApi>>

\* commands::set_waveform, `Waveform::from_str(&waveform).unwrap()`: the
\* unwrap of None panics.
CommandsSetWaveformParse ==
    /\ apc = "idle"
    /\ afn' = "commands::set_waveform"
    /\ issued' = <<>>
    /\ aw' = from_str(arg)
    /\ IF from_str(arg) = "None"
       THEN /\ ares' = "panic"
            /\ apc' = "done"
       ELSE /\ apc' = "send"
            /\ UNCHANGED ares
    /\ UNCHANGED <<synth, queue, engine, arg, notApi>>

\* commands::set_waveform, handle_audio_event(AudioEvent::SetWaveform { .. }):
\* the event is put on the engine's queue, or dropped when the queue is full;
\* either result is only logged and the command returns ().
CommandsSetWaveformSend ==
    /\ apc = "send"
    /\ afn = "commands::set_waveform"
    /\ issued' = Append(issued, aw)
    /\ IF Len(queue) < QueueCap
       THEN queue' = Append(queue, Ev("SetWaveform", 0, aw))
       ELSE UNCHANGED queue
    /\ ares' = "()"
    /\ apc' = "done"
    /\ UNCHANGED <<synth, engine, arg, afn, aw, notApi>>

\* The call is over; the entry points can be called again.
ApiReturn ==
    /\ apc = "done"
    /\ apc' = "idle"
    /\ UNCHANGED <<synth, queue, engine, arg, afn, aw, ares, issued, notApi>>

\* Calls of the two entry points with one name, over and over.
InitApi ==
    /\ InitCommon
    /\ rpc = "idle"
    /\ queue = <<>>
    /\ arg \in NameInputs

NextApi ==
    \/ AudioSetWaveformInit
    \/ AudioSetWaveformParse
    \/ AudioSetWaveformApply
    \/ CommandsSetWaveformParse
    \/ CommandsSetWaveformSend
    \/ ApiReturn

SpecApi == InitApi /\ [][NextApi]_vars

\* ---------------------------------------------------------------- initialize_audio_engine (Android)
\* The loop nest `for sample_rate { for buffer_size { .. } }` moves on: the
\* position after the attempt at (ri, bi), and whether the nest is over.
LastOfSweep == ri = Len(sample_rates) /\ bi = Len(buffer_sizes)
AdvanceSweep(after) ==
    IF LastOfSweep
    THEN /\ npc' = after
         /\ ri' = 1
         /\ bi' = 1
    ELSE /\ npc' = npc
         /\ ri' = IF bi = Len(buffer_sizes) THEN ri + 1 ELSE ri
         /\ bi' = IF bi = Len(buffer_sizes) THEN 1 ELSE bi + 1

\* The record of an open: pushed to attempt_info, and noted when it succeeded.
Record(strategy, sample_rate, buffer_size, out) ==
    /\ attempt' = AttemptOf(strategy, sample_rate, buffer_size, out)
    /\ nattempts' = nattempts + 1
    /\ nok' = IF out.ok THEN nok + 1 ELSE nok
    /\ opened' = IF out.ok
                 THEN [opened EXCEPT ![strategy] = @ \cup {latency_of(out.frames, out.rate)}]
                 ELSE opened

\* A stream that is opened and not kept: `s` goes out of scope at the end of
\* the Ok arm and is dropped there; a failed open yields no stream.
Discard(strategy, sample_rate, buffer_size, out) ==
    /\ UNCHANGED <<stream, best_latency, final_sample_rate>>
    /\ live' = IF out.ok
               THEN drop(live \cup {StreamOf(strategy, sample_rate, buffer_size, out)},
                         StreamOf(strategy, sample_rate, buffer_size, out))
               ELSE live

\* `stream = Some(s)` with the two locals that go with it; the assignment
\* drops the stream held before.
\* Variant: best_latency is not updated.
Keep_stale(strategy, sample_rate, buffer_size, out) ==
    /\ best_latency' = best_latency
    /\ final_sample_rate' = sample_rate
    /\ stream' = StreamOf(strategy, sample_rate, buffer_size, out)
    /\ live' = drop(live \cup {StreamOf(strategy, sample_rate, buffer_size, out)}, stream)
Keep(strategy, sample_rate, buffer_size, out) ==
    /\ best_latency' = latency_ms(out, sample_rate)
    /\ final_sample_rate' = sample_rate
    /\ stream' = StreamOf(strategy, sample_rate, buffer_size, out)
    /\ live' = drop(live \cup {StreamOf(strategy, sample_rate, buffer_size, out)}, stream)

\* Strategy 1, one pass of the inner loop: LowLatency + Exclusive.
Strategy1Attempt ==
    /\ npc = "strategy1"
    /\ LET sample_rate == sample_rates[ri]
           buffer_size == buffer_sizes[bi]
       IN  \E out \in OpenOutcomes :
              /\ Record(1, sample_rate, buffer_size, out)
              /\ IF out.ok /\ latency_ms(out, sample_rate) < best_latency
                 THEN Keep(1, sample_rate, buffer_size, out)
                 ELSE Discard(1, sample_rate, buffer_size, out)
    /\ AdvanceSweep("check2")
    /\ UNCHANGED <<nres, notNeg>>

\* `if stream.is_none()` before strategy 2.
\* Variant: strategy 2 is entered whatever strategy 1 left.
Strategy2Enter_always ==
    /\ npc = "check2"
    /\ npc' = "strategy2"
    /\ UNCHANGED <<ri, bi, stream, best_latency, final_sample_rate, attempt, nattempts,
                   nok, opened, nres, live, notNeg>>
Strategy2Enter ==
    /\ npc = "check2"
    /\ npc' = IF stream = NoStream THEN "strategy2" ELSE "check3"
    /\ UNCHANGED <<ri, bi, stream, best_latency, final_sample_rate, attempt, nattempts,
                   nok, opened, nres, live, notNeg>>

\* Strategy 2, one pass of the inner loop: PowerSaving + Exclusive.
Strategy2Attempt ==
    /\ npc = "strategy2"
    /\ LET sample_rate == sample_rates[ri]
           buffer_size == buffer_sizes[bi]
       IN  \E out \in OpenOutcomes :
              /\ Record(2, sample_rate, buffer_size, out)
              /\ IF out.ok /\ (stream = NoStream \/ latency_ms(out, sample_rate) < best_latency)
                 THEN Keep(2, sample_rate, buffer_size, out)
                 ELSE Discard(2, sample_rate, buffer_size, out)
    /\ AdvanceSweep("check3")
    /\ UNCHANGED <<nres, notNeg>>

\* `if stream.is_none()` before strategy 3.
Strategy3Enter ==
    /\ npc = "check3"
    /\ npc' = IF stream = NoStream THEN "strategy3" ELSE "final"
    /\ UNCHANGED <<ri, bi, stream, best_latency, final_sample_rate, attempt, nattempts,
                   nok, opened, nres, live, notNeg>>

\* Strategy 3, one pass of its loop over sample_rates: LowLatency + Shared,
\* 64 frames; the loop breaks at the stream it keeps.
Strategy3Attempt ==
    /\ npc = "strategy3"
    /\ LET sample_rate == sample_rates[ri]
       IN  \E out \in OpenOutcomes :
              /\ Record(3, sample_rate, 64, out)
              /\ IF out.ok /\ (stream = NoStream \/ latency_ms(out, sample_rate) < best_latency)
                 THEN /\ Keep(3, sample_rate, 64, out)
                      /\ npc' = "final"
                      /\ ri' = 1
                 ELSE /\ Discard(3, sample_rate, 64, out)
                      /\ npc' = IF ri = Len(sample_rates) THEN "final" ELSE npc
                      /\ ri' = IF ri = Len(sample_rates) THEN 1 ELSE ri + 1
    /\ UNCHANGED <<bi, nres, notNeg>>

\* `match stream`: without a stream the function returns Err.
GetFinalStream ==
    /\ npc = "final"
    /\ IF stream = NoStream
       THEN /\ nres' = "Err(Failed to initialize callback audio stream)"
            /\ npc' = "returned"
       ELSE /\ npc' = "start"
            /\ UNCHANGED nres
    /\ UNCHANGED <<ri, bi, stream, best_latency, final_sample_rate, attempt, nattempts,
                   nok, opened, live, notNeg>>

\* `stream.start()?`: a failing start returns its error and drops the
\* stream; otherwise the stream goes to the keeper thread and Ok(()) is returned.
StartStream ==
    /\ npc = "start"
    /\ \/ /\ nres' = "Ok"
          /\ UNCHANGED <<stream, live>>
       \/ /\ nres' = "Err(start)"
          /\ stream' = NoStream
          /\ live' = drop(live, stream)
    /\ npc' = "returned"
    /\ UNCHANGED <<ri, bi, best_latency, final_sample_rate, attempt, nattempts,
                   nok, opened, notNeg>>

InitNegotiate ==
    /\ InitCommon
    /\ rpc = "idle"
    /\ queue = <<>>
    /\ arg = <<>>

NextNegotiate ==
    \/ Strategy1Attempt
    \/ Strategy2Enter
    \/ Strategy2Attempt
    \/ Strategy3Enter
    \/ Strategy3Attempt
    \/ GetFinalStream
    \/ StartStream

SpecNegotiate == InitNegotiate /\ [][NextNegotiate]_vars

\* ---------------------------------------------------------------- initialize_audio and the entry points
\* A caller enters an entry point: the lazily-initialising ones begin with
\* initialize_audio(), the others go straight to AUDIO_ENGINE.get().
EntryCall(t) ==
    /\ ipc[t] = "idle"
    /\ \E fn \in CallsOf(t) :
          /\ ifn' = [ifn EXCEPT ![t] = fn]
          /\ ipc' = [ipc EXCEPT ![t] = IF fn \in LazyEntryPoints THEN "is_none" ELSE "get"]
    /\ UNCHANGED <<synth, engine, ires, nnew, nstarted, notInit>>

\* initialize_audio: `if AUDIO_ENGINE.get().is_none()`; with the engine set
\* it returns Ok(()) and the entry point goes on.
InitIsNone(t) ==
    /\ ipc[t] = "is_none"
    /\ ipc' = [ipc EXCEPT ![t] = IF engine = "unset" THEN "new" ELSE "get"]
    /\ UNCHANGED <<synth, engine, ifn, ires, nnew, nstarted, notInit>>

\* initialize_audio: `match AudioEngine::new()`. Ok(engine): a synth was
\* built and the platform stream on it started. Err(e): initialize_audio
\* returns it and the entry point returns Err("Failed to initialize audio: e").
\* Variant: the error of AudioEngine::new is unwrapped.
InitNew_unwrap(t) ==
    /\ ipc[t] = "new"
    /\ nnew < MaxNew
    /\ nnew' = nnew + 1
    /\ \/ /\ nstarted' = nstarted + 1
          /\ ipc' = [ipc EXCEPT ![t] = "set"]
          /\ UNCHANGED ires
       \/ /\ ires' = [ires EXCEPT ![t] = [tag |-> "panic", v |-> 0, w |-> "-"]]
          /\ ipc' = [ipc EXCEPT ![t] = "done"]
          /\ UNCHANGED nstarted
    /\ UNCHANGED <<synth, engine, ifn, notInit>>
InitNew(t) ==
    /\ ipc[t] = "new"
    /\ nnew < MaxNew
    /\ nnew' = nnew + 1
    /\ \/ /\ nstarted' = nstarted + 1
          /\ ipc' = [ipc EXCEPT ![t] = "set"]
          /\ UNCHANGED ires
       \/ /\ ires' = [ires EXCEPT ![t] = ErrResult("Failed to initialize audio: new")]
          /\ ipc' = [ipc EXCEPT ![t] = "done"]
          /\ UNCHANGED nstarted
    /\ UNCHANGED <<synth, engine, ifn, notInit>>

\* initialize_audio: `AUDIO_ENGINE.set(engine)`. OnceLock::set stores the
\* engine when none is stored; otherwise it hands the engine back as Err,
\* initialize_audio returns Err("Failed to initialize audio engine") and the
\* engine just built is dropped (its stream was leaked or is owned by its
\* keeper thread, and keeps running).
InitSet(t) ==
    /\ ipc[t] = "set"
    /\ IF engine = "unset"
       THEN /\ engine' = "set"
            /\ synth' = SynthNew
            /\ ipc' = [ipc EXCEPT ![t] = "get"]
            /\ UNCHANGED ires
       ELSE /\ ires' = [ires EXCEPT ![t] =
                           ErrResult("Failed to initialize audio: Failed to initialize audio engine")]
            /\ ipc' = [ipc EXCEPT ![t] = "done"]
            /\ UNCHANGED <<engine, synth>>
    /\ UNCHANGED <<ifn, nnew, nstarted, notInit>>

\* `if let Some(engine) = AUDIO_ENGINE.get() { engine.f(..) } else { .. }`:
\* the engine's method locks the synth and calls the synth's method.
EntryGet(t) ==
    /\ ipc[t] = "get"
    /\ IF engine = "set"
       THEN LET r == handle_event(FreshLog(synth), EngineCallOf(ifn[t]))
            IN  /\ synth' = r.synth
                /\ ires' = [ires EXCEPT ![t] = r.result]
       ELSE /\ ires' = [ires EXCEPT ![t] = NotInitialized(ifn[t])]
            /\ UNCHANGED synth
    /\ ipc' = [ipc EXCEPT ![t] = "done"]
    /\ UNCHANGED <<engine, ifn, nnew, nstarted, notInit>>

\* The entry point has returned to its caller.
EntryReturn(t) ==
    /\ ipc[t] = "done"
    /\ ipc' = [ipc EXCEPT ![t] = "idle"]
    /\ ifn' = [ifn EXCEPT ![t] = "-"]
    /\ ires' = [ires EXCEPT ![t] = NoResult]
    /\ UNCHANGED <<synth, engine, nnew, nstarted, notInit>>

NextInit ==
    \/ \E t \in Callers : EntryCall(t)
    \/ \E t \in Callers : InitIsNone(t)
    \/ \E t \in Callers : InitNew(t)
    \/ \E t \in Callers : InitSet(t)
    \/ \E t \in Callers : EntryGet(t)
    \/ \E t \in Callers : EntryReturn(t)

SpecInit == Init /\ [][NextInit]_vars

\* ---------------------------------------------------------------- the stream keeper thread
\* oboe::StreamState
StreamStates == {"Uninitialized", "Unknown", "Open", "Starting", "Started", "Pausing",
                 "Paused", "Flushing", "Flushed", "Stopping", "Stopped", "Closing",
                 "Closed", "Disconnected"}

\* `match stream.get_state()`: the arms for Paused and Stopped go on to
\* stream.start(), every other arm to its sleep.
KeeperGetState ==
    /\ kpc = "loop"
    /\ kstate' = sstate
    /\ kpc' = IF sstate \in {"Paused", "Stopped"} THEN "start" ELSE "sleep"
    /\ UNCHANGED <<sstate, kfailed, notKeep>>

\* `if let Err(e) = stream.start() { println!(..) }`: a start that fails is
\* logged and leaves the stream as it is; either way the arm goes on to sleep.
\* Variant: the error of start() ends the thread, as `stream.start()?` would.
KeeperStart_fatal ==
    /\ kpc = "start"
    /\ \/ /\ sstate' \in {"Starting", "Started"}
          /\ kpc' = "sleep"
          /\ UNCHANGED kfailed
       \/ /\ kfailed' = IF kfailed < MaxLogged THEN kfailed + 1 ELSE kfailed
          /\ kpc' = "exited"
          /\ UNCHANGED sstate
    /\ UNCHANGED <<kstate, notKeep>>
KeeperStart ==
    /\ kpc = "start"
    /\ \/ /\ sstate' \in {"Starting", "Started"}
          /\ UNCHANGED kfailed
       \/ /\ kfailed' = IF kfailed < MaxLogged THEN kfailed + 1 ELSE kfailed
          /\ UNCHANGED sstate
    /\ kpc' = "sleep"
    /\ UNCHANGED <<kstate, notKeep>>

\* std::thread::sleep returns and the loop starts over.
KeeperSleep ==
    /\ kpc = "sleep"
    /\ kpc' = "loop"
    /\ UNCHANGED <<kstate, sstate, kfailed, notKeep>>

\* The platform moves the stream to another state (focus lost, device
\* unplugged, a start under way completing).
StreamStateChange ==
    /\ \E st \in StreamStates \ {sstate} : sstate' = st
    /\ UNCHANGED <<kpc, kstate, kfailed, notKeep>>

KeeperStep == KeeperGetState \/ KeeperStart \/ KeeperSleep

NextKeeper ==
    \/ KeeperGetState
    \/ KeeperStart
    \/ KeeperSleep
    \/ StreamStateChange

\* The thread is scheduled and its sleeps end: its next step is taken.
SpecKeeper == Init /\ [][NextKeeper]_vars /\ WF_vars(KeeperStep)

\* ---------------------------------------------------------------- the Android callback and the JNI triggers
\* The frequencies nativePlayNote is called with: NaN, below 0, an audible
\* one, and 20000 Hz.
FrequencyInputs == {NaN, -1000, 6000000, 20000000}

\* `self.synth.get_mono()` panicked inside catch_unwind.
Panic == 2000000002
\* What get_mono may yield: NaN, a sample inside [-1, 1], one above 1, a panic.
GetMono == {NaN, -1000, 1500, Panic}

Abs(x) == IF x < 0 THEN 0 - x ELSE x

\* `let frequency = if raw_frequency.is_finite() && raw_frequency > 0.0 &&
\* raw_frequency < 20000.0 { raw_frequency } else { 0.0 }`
\* Variant: the upper limit is not tested.
validate_no_upper(raw_frequency) ==
    IF IsFinite(raw_frequency) /\ raw_frequency > 0 THEN raw_frequency ELSE 0
validate(raw_frequency) ==
    IF IsFinite(raw_frequency) /\ raw_frequency > 0 /\ raw_frequency < 20000000
    THEN raw_frequency
    ELSE 0

\* The sample the FunDSP path writes for one get_mono(): a panic is caught
\* and counts as 0.0; a finite value of magnitude at most 1 is halved.
fundsp_sample(out) ==
    LET result == IF out = Panic THEN 0 ELSE out
    IN  IF IsFinite(result) /\ Abs(result) <= 1000 THEN result \div 2 ELSE 0

\* The FunDSP path: the oscillator is rebuilt when the frequency moved by
\* more than 0.1 Hz, then one get_mono() per sample; a panic clears use_fundsp.
fundsp_path(cb, frequency, outs) ==
    LET cb1 == IF Abs(frequency - cb.current_frequency) > 100
               THEN [cb EXCEPT !.current_frequency = frequency]
               ELSE cb
    IN  [cb |-> [cb1 EXCEPT !.use_fundsp = \A k \in DOMAIN outs : outs[k] # Panic],
         frames |-> [k \in DOMAIN outs |-> fundsp_sample(outs[k])],
         path |-> "fundsp"]

\* (phase * 2.0 * PI).sin() at the eighths of a turn.
sin(phase) == <<0, 707, 1000, 707, 0, -707, -1000, -707>>[phase + 1]

\* `self.phase += frequency / self.sample_rate`, to the eighth of a turn below.
phase_step(frequency, sample_rate) == (frequency * PhaseOne) \div (sample_rate * 1000)

\* The legacy generator's `for sample in frames.iter_mut()`: the sine at the
\* phase, scaled by 0.5 and the envelope; then the phase moves on and wraps.
RECURSIVE legacy_frames(_, _, _)
legacy_frames(cb, frequency, n) ==
    IF n = 0
    THEN [cb |-> cb, frames |-> <<>>]
    ELSE LET sine_val == sin(cb.phase)
             sample == IF IsFinite(sine_val)
                       THEN (sine_val * cb.envelope) \div (2 * EnvelopeOne)
                       ELSE 0
             p == cb.phase + phase_step(frequency, cb.sample_rate)
             cb1 == [cb EXCEPT !.phase = IF p >= PhaseOne THEN p - PhaseOne ELSE p]
             rest == legacy_frames(cb1, frequency, n - 1)
         IN  [cb |-> rest.cb, frames |-> <<sample>> \o rest.frames]

Silent(n) == [k \in 1..n |-> 0]

\* The legacy path: attack while playing, else fade out, else silence.
legacy_path(cb, is_on, frequency, n) ==
    IF is_on /\ frequency > 0
    THEN LET e == IF cb.envelope < EnvelopeOne
                  THEN IF cb.envelope + cb.fade_step * 4 < EnvelopeOne
                       THEN cb.envelope + cb.fade_step * 4
                       ELSE EnvelopeOne
                  ELSE cb.envelope
             r == legacy_frames([cb EXCEPT !.envelope = e], frequency, n)
         IN  [cb |-> r.cb, frames |-> r.frames, path |-> "attack"]
    ELSE IF cb.envelope > 0
    THEN LET e == IF cb.envelope - cb.fade_step > 0 THEN cb.envelope - cb.fade_step ELSE 0
             r == legacy_frames([cb EXCEPT !.envelope = e], frequency, n)
         IN  IF e > 0
             THEN [cb |-> r.cb, frames |-> r.frames, path |-> "fade"]
             ELSE [cb |-> [cb EXCEPT !.envelope = e, !.phase = 0],
                   frames |-> Silent(n), path |-> "fade"]
    ELSE [cb |-> [cb EXCEPT !.phase = 0], frames |-> Silent(n), path |-> "silence"]

\* What one on_audio_ready can do to the callback object and to `frames`.
on_audio_ready(cb, is_on, frequency, n) ==
    IF cb.use_fundsp /\ is_on /\ frequency > 0
    THEN {fundsp_path(cb, frequency, outs) : outs \in [1..n -> GetMono]}
    ELSE {legacy_path(cb, is_on, frequency, n)}

\* initialize_audio_engine builds the AudioCallback of the stream it opens,
\* for one of the sample rates.
NewCallback ==
    /\ opc = "new"
    /\ \E n \in DOMAIN sample_rates : callback' = AudioCallbackNew(sample_rates[n])
    /\ opc' = "idle"
    /\ UNCHANGED <<is_playing, frequency_bits, sbuf, jpc, ntrig, playing, cb_frames, ran, notCb>>

\* on_audio_ready is called with a `frames` slice to fill:
\* `let playing = self.is_playing.load(Ordering::Relaxed)`.
LoadIsPlaying ==
    /\ opc = "idle"
    /\ playing' = is_playing
    /\ cb_frames' = <<>>
    /\ opc' = "loaded"
    /\ UNCHANGED <<is_playing, frequency_bits, sbuf, jpc, ntrig, callback, ran, notCb>>

\* on_audio_ready from `self.frequency_bits.load(Ordering::Relaxed)` to its return.
OnAudioReady ==
    /\ opc = "loaded"
    /\ LET raw_frequency == from_bits(frequency_bits.v)
           frequency == validate(raw_frequency)
       IN  \E n \in 1..MaxFrames :
           \E r \in on_audio_ready(callback, playing.v, frequency, n) :
              /\ callback' = r.cb
              /\ cb_frames' = r.frames
              /\ ran' = r.path
    /\ playing' = Stored(FALSE, 0)
    /\ opc' = "idle"
    /\ UNCHANGED <<is_playing, frequency_bits, sbuf, jpc, ntrig, notCb>>

\* A Relaxed store of the JNI thread: issued, and visible to the callback later.
Store(loc, bits, on, by) == [loc |-> loc, bits |-> bits, on |-> on, by |-> by]

\* nativePlayNote: `frequency_bits.store((frequency as f32).to_bits(), Relaxed)`
\* (the result of initialize_audio() before it is ignored).
NativePlayNoteFrequency ==
    /\ jpc = "idle"
    /\ ntrig < MaxTriggers
    /\ Len(sbuf) < MaxBuffered
    /\ \E frequency \in FrequencyInputs :
          sbuf' = Append(sbuf, Store("frequency_bits", to_bits(frequency), FALSE, ntrig + 1))
    /\ ntrig' = ntrig + 1
    /\ jpc' = "is_playing"
    /\ UNCHANGED <<is_playing, frequency_bits, callback, opc, playing, cb_frames, ran, notCb>>

\* nativePlayNote: `is_playing.store(true, Relaxed)`.
NativePlayNoteIsPlaying ==
    /\ jpc = "is_playing"
    /\ Len(sbuf) < MaxBuffered
    /\ sbuf' = Append(sbuf, Store("is_playing", 0, TRUE, ntrig))
    /\ jpc' = "idle"
    /\ UNCHANGED <<is_playing, frequency_bits, ntrig, callback, opc, playing, cb_frames, ran, notCb>>

\* nativeStopNote: `is_playing.store(false, Relaxed)`.
NativeStopNote ==
    /\ jpc = "idle"
    /\ Len(sbuf) < MaxBuffered
    /\ sbuf' = Append(sbuf, Store("is_playing", 0, FALSE, 0))
    /\ UNCHANGED <<is_playing, frequency_bits, jpc, ntrig, callback, opc, playing, cb_frames,
                   ran, notCb>>

\* A store becomes visible to the callback's thread. Ordering::Relaxed orders
\* the stores to one atomic, not those to different atomics: any issued
\* store with no earlier one to the same atomic still waiting can be next.
\* Variant: the stores become visible in the order they were issued.
Visible_in_order ==
    /\ sbuf # <<>>
    /\ IF sbuf[1].loc = "is_playing"
       THEN /\ is_playing' = Stored(sbuf[1].on, sbuf[1].by)
            /\ UNCHANGED frequency_bits
       ELSE /\ frequency_bits' = Stored(sbuf[1].bits, sbuf[1].by)
            /\ UNCHANGED is_playing
    /\ sbuf' = Tail(sbuf)
    /\ UNCHANGED <<jpc, ntrig, callback, opc, playing, cb_frames, ran, notCb>>
Visible ==
    /\ \E k \in DOMAIN sbuf :
          /\ \A j \in 1..(k - 1) : sbuf[j].loc # sbuf[k].loc
          /\ IF sbuf[k].loc = "is_playing"
             THEN /\ is_playing' = Stored(sbuf[k].on, sbuf[k].by)
                  /\ UNCHANGED frequency_bits
             ELSE /\ frequency_bits' = Stored(sbuf[k].bits, sbuf[k].by)
                  /\ UNCHANGED is_playing
          /\ sbuf' = [j \in 1..(Len(sbuf) - 1) |-> IF j < k THEN sbuf[j] ELSE sbuf[j + 1]]
    /\ UNCHANGED <<jpc, ntrig, callback, opc, playing, cb_frames, ran, notCb>>

NextCallback ==
    \/ NewCallback
    \/ LoadIsPlaying
    \/ OnAudioReady
    \/ NativePlayNoteFrequency
    \/ NativePlayNoteIsPlaying
    \/ NativeStopNote
    \/ Visible

SpecCallback == Init /\ [][NextCallback]_vars
\* ================================================================ claims
IsContinuous(event) == event.kind \in ContinuousKinds
IsDiscrete(event) == event.kind \in DiscreteKinds
Positions(seq, kind) == {n \in DOMAIN seq : seq[n].kind = kind}
MaxOf(S) == CHOOSE n \in S : \A m \in S : m <= n

\* C1: when drain_and_coalesce_events returns, for each of the 12 continuous
\* kinds the output holds at most one event of that kind, holds one exactly
\* when an event of that kind was popped, and that event is the last popped
\* instance of the kind.
C1_LastOfEachKind ==
    rpc = "handle" =>
        \A kind \in ContinuousKinds :
            LET out == Positions(events, kind)
                in == Positions(popped, kind)
            IN  /\ Cardinality(out) <= 1
                /\ (Cardinality(out) = 1) <=> (in # {})
                /\ \A n \in out : events[n] = popped[MaxOf(in)]

C1_Witness ==
    /\ rpc = "handle"
    /\ \E a, b \in DOMAIN popped :
          /\ a < b
          /\ popped[a].kind = popped[b].kind
          /\ IsContinuous(popped[a])
          /\ popped[a] # popped[b]
          /\ \E n \in DOMAIN events : events[n] = popped[b]

\* C2: the non-coalescable events (PlayNote, NoteOff, every Get* query) of the
\* popped sequence appear in the output all kept, none duplicated, in the
\* order they were popped.
C2_DiscreteKeptInOrder ==
    rpc = "handle" => SelectSeq(events, IsDiscrete) = SelectSeq(popped, IsDiscrete)

C2_Witness ==
    /\ rpc = "handle"
    /\ Len(popped) >= 2
    /\ IsDiscrete(popped[1])
    /\ IsDiscrete(popped[2])
    /\ popped[1] # popped[2]
    /\ events = popped

\* C3: the output is the passthrough events followed by the coalesced events:
\* no continuous-parameter event precedes a PlayNote, NoteOff or Get* event;
\* and the burst [SetMasterVolume(0.2), PlayNote(440), SetMasterVolume(0.5),
\* SetMasterVolume(0.9)] yields exactly [PlayNote(440), SetMasterVolume(0.9)].
C3_PassthroughThenCoalesced ==
    rpc = "handle" =>
        /\ \A a, b \in DOMAIN events :
              (IsContinuous(events[a]) /\ IsDiscrete(events[b])) => b < a
        /\ popped = ExampleBurst =>
              events = <<Ev("PlayNote", 440000, "-"), Ev("SetMasterVolume", 900, "-")>>

C3_Witness ==
    /\ rpc = "handle"
    /\ popped = ExampleBurst
    /\ Len(events) = 2

\* The documented domain of each clamped parameter, and its getter.
ClampedKinds == F32Kinds \ {"SetFrequency"}
Lo(kind) ==
    CASE kind \in {"SetAttack", "SetDecay", "SetRelease"} -> 1
      [] kind = "SetFilterCutoff" -> 20000
      [] OTHER -> 0
Hi(kind) ==
    CASE kind \in {"SetAttack", "SetDecay", "SetDelayTime"} -> 5000
      [] kind = "SetRelease" -> 10000
      [] kind = "SetFilterCutoff" -> 20000000
      [] OTHER -> 1000
Getter(kind, s) ==
    CASE kind = "SetMasterVolume" -> get_master_volume(s)
      [] kind = "SetAttack" -> get_attack(s)
      [] kind = "SetDecay" -> get_decay(s)
      [] kind = "SetSustain" -> get_sustain(s)
      [] kind = "SetRelease" -> get_release(s)
      [] kind = "SetDelayTime" -> get_delay_time(s)
      [] kind = "SetDelayFeedback" -> get_delay_feedback(s)
      [] kind = "SetDelayMix" -> get_delay_mix(s)
      [] kind = "SetFilterCutoff" -> get_filter_cutoff(s)
      [] kind = "SetFilterResonance" -> get_filter_resonance(s)
\* The value a set(v) is to leave in the cell: v brought into [lo, hi]; NaN,
\* which f32::clamp returns unchanged, stays NaN.
Clamped(v, lo, hi) ==
    IF v = NaN THEN NaN ELSE IF v < lo THEN lo ELSE IF v > hi THEN hi ELSE v

C5_ParamsInDomain ==
    \A kind \in ClampedKinds :
        /\ FLe(Lo(kind), Getter(kind, synth))
        /\ FLe(Getter(kind, synth), Hi(kind))

\* C6: PlayNote{f} sets the frequency cell to f and the gate cell to 1;
\* SetFrequency{f} sets the frequency cell to f and leaves the gate;
\* NoteOff sets the gate to 0 and leaves the frequency; none of the three
\* changes another parameter, the waveform or the graph.
C6_GateAndFrequency ==
    LET before == FreshLog(last.before)
    IN  /\ last.event.kind = "PlayNote" =>
              synth = [before EXCEPT !.frequency_var = last.event.v, !.key_down_var = 1000]
        /\ last.event.kind = "SetFrequency" =>
              synth = [before EXCEPT !.frequency_var = last.event.v]
        /\ last.event.kind = "NoteOff" =>
              synth = [before EXCEPT !.key_down_var = 0]

C6_Witness ==
    /\ last.event.kind = "SetFrequency"
    /\ last.before.key_down_var = 0
    /\ last.before.frequency_var # last.event.v
    /\ synth.frequency_var = last.event.v
    /\ synth.key_down_var = 0

\* The cell a coefficient event writes.
Cell(kind) ==
    CASE kind = "SetFrequency" -> "frequency_var"
      [] kind = "SetMasterVolume" -> "master_volume_var"
      [] kind = "SetDelayFeedback" -> "delay_feedback_var"
      [] kind = "SetDelayMix" -> "delay_mix_var"
      [] kind = "SetFilterCutoff" -> "filter_cutoff_var"
      [] kind = "SetFilterResonance" -> "filter_resonance_var"
CoefficientKinds == {"SetFrequency", "SetMasterVolume", "SetDelayFeedback", "SetDelayMix",
                     "SetFilterCutoff", "SetFilterResonance"}
AdsrKinds == {"SetAttack", "SetDecay", "SetSustain", "SetRelease"}

\* The routing of the events other than SetWaveform.
RoutingOfF32Events ==
    /\ last.event.kind \in AdsrKinds =>
          /\ Getter(last.event.kind, synth)
                = Clamped(last.event.v, Lo(last.event.kind), Hi(last.event.kind))
          /\ synth.net.log = <<"replace_adsr", "commit">>
          /\ synth.net.adsr = <<synth.attack_var, synth.decay_var,
                                 synth.sustain_var, synth.release_var>>
          /\ synth.backend.adsr = synth.net.adsr
    /\ last.event.kind = "SetDelayTime" =>
          /\ synth.delay_time_var = Clamped(last.event.v, 0, 5000)
          /\ synth.net.log = <<"replace_delay", "commit">>
          /\ synth.net.delay = synth.delay_time_var
          /\ synth.backend.delay = synth.net.delay
    /\ last.event.kind \in CoefficientKinds =>
          /\ synth.net.log = <<>>
          /\ synth = [FreshLog(last.before) EXCEPT
                         ![Cell(last.event.kind)] = synth[Cell(last.event.kind)]]

\* C7 as stated: ... handling SetWaveform replaces the oscillator node and
\* commits (whatever the waveform it carries).
C7_Original ==
    /\ RoutingOfF32Events
    /\ last.event.kind = "SetWaveform" =>
          /\ synth.net.log = <<"replace_osc", "commit">>
          /\ synth.backend.osc = create_oscillator(last.event.w)

\* C7: SetAttack/SetDecay/SetSustain/SetRelease store the clamped value, then
\* replace the envelope node (built from the stored cells) and commit;
\* SetDelayTime stores the clamped value, then replaces the delay node and
\* commits; SetWaveform{w} replaces the oscillator node and commits when w
\* differs from the current waveform, and does nothing when w is the current
\* waveform; SetDelayFeedback, SetDelayMix, SetFilterCutoff,
\* SetFilterResonance, SetMasterVolume and SetFrequency write only their cell,
\* with no node replacement and no commit.
C7_Routing ==
    /\ RoutingOfF32Events
    /\ last.event.kind = "SetWaveform" =>
          IF last.event.w # last.before.current_waveform
          THEN /\ synth.net.log = <<"replace_osc", "commit">>
               /\ synth.net.osc = create_oscillator(last.event.w)
               /\ synth.backend.osc = create_oscillator(last.event.w)
          ELSE synth = FreshLog(last.before)

C7_Witness ==
    /\ last.event.kind = "SetWaveform"
    /\ last.event.w # last.before.current_waveform
    /\ last.before.current_waveform # "Sine"
    /\ synth.net.log = <<"replace_osc", "commit">>

\* fill_buffer is at a call of backend.process.
AtProcess == rpc = "process" /\ i < outlen
\* A step that edits the graph: a Net::replace or a Net::commit.
GraphEdited == synth'.net # synth.net \/ synth'.backend # synth.backend

\* C8: whenever fill_buffer calls backend.process, every Net::replace made so
\* far has been followed by Net::commit: no edit is pending and the backend
\* holds the nodes of the net.
C8_NoPendingEditAtProcess ==
    AtProcess =>
        /\ ~synth.net.uncommitted
        /\ synth.backend = [osc |-> synth.net.osc, adsr |-> synth.net.adsr,
                             delay |-> synth.net.delay]

C8_Witness ==
    /\ AtProcess
    /\ synth.net.log = <<"replace_adsr", "commit">>
    /\ synth.backend.adsr = adsr_live(100, 200, 600, 300)
    /\ synth.backend.osc = "saw"

\* C9: every step that replaces a node or commits is taken either by the
\* render context inside fill_buffer before the first backend.process of the
\* buffer (its event loop), or by a control context that holds the synth
\* mutex; and no step taken while fill_buffer is in its backend.process loop
\* edits the graph.
EditIsExclusive ==
    /\ GraphEdited =>
          \/ (rpc = "handle" /\ mutex = "render" /\ rpc' = "handle")
          \/ (mutex = "control" /\ cpc \in {"locked", "replaced"})
    /\ (rpc = "process") => ~GraphEdited
C9_NoEditDuringRender == [][EditIsExclusive]_vars

C9_Witness ==
    /\ rpc = "process"
    /\ i > 0
    /\ i < outlen
    /\ cpc = "idle"
    /\ synth.current_waveform = "Sawtooth"
    /\ queue # <<>>

\* C10: every sample fill_buffer writes to the output buffer lies in [-1, 1].
C10_SamplesInRange ==
    \A k \in DOMAIN output : FLe(-1000, output[k]) /\ FLe(output[k], 1000)

\* A sample that is finite and of magnitude at most 1.
InUnitRange(x) == IsFinite(x) /\ -1000 <= x /\ x <= 1000

\* C11: whenever backend.process produces a sample that is non-finite or of
\* magnitude above 1, fill_buffer writes silence (0.0) in place of that one
\* sample, and it writes every other sample as produced.
C11_SilenceForBadSample ==
    \A k \in DOMAIN block :
        IF InUnitRange(block[k]) THEN output[k] = block[k] ELSE output[k] = 0

InSeq(seq, e) == \E n \in DOMAIN seq : seq[n] = e
Count(seq, e) == Cardinality({n \in DOMAIN seq : seq[n] = e})
IsPrefix(a, b) == Len(a) <= Len(b) /\ SubSeq(b, 1, Len(a)) = a
\* The events the fill_buffer call in progress has handled.
HandledNow == SubSeq(handled, hbase + 1, Len(handled))

\* Every event that was queued when the drain began has been popped, none is
\* still queued, and each has been handled or was superseded by a later
\* popped event of its continuous kind.
VisibleThisBuffer ==
    /\ IsPrefix(pending, popped)
    /\ \A j \in DOMAIN pending :
          /\ ~InSeq(queue, pending[j])
          /\ \/ InSeq(HandledNow, pending[j])
             \/ /\ IsContinuous(pending[j])
                /\ \E k \in (j + 1)..Len(popped) : popped[k].kind = pending[j].kind

\* C12: when fill_buffer leaves its event loop for the chunk loop (before the
\* first sample of the buffer is produced), every event that was in the queue
\* when the call began to drain has been handled by handle_event or was
\* discarded for a later event of the same continuous kind of the same drain;
\* none of them is left in the queue for a later buffer.
C12_QueuedEventsVisible ==
    [][(rpc = "handle" /\ rpc' = "process") => VisibleThisBuffer]_vars

C12_Witness ==
    /\ rpc = "handle"
    /\ ei > Len(events)
    /\ Len(pending) = 2
    /\ pending[1].kind = "SetFrequency"
    /\ pending[2].kind = "PlayNote"
    /\ Len(popped) = 3
    /\ popped[3].kind = "SetFrequency"
    /\ HandledNow = <<popped[2], popped[3]>>
    /\ queue = <<>>

\* C13: every event pushed successfully is either still queued or was popped
\* once, in push order; no event is handled that was not popped, and none is
\* handled twice; outside the drain and the event loop every popped PlayNote
\* (the discrete kind pushed here) has been handled exactly once, in pop order.
C13_ConsumedOnce ==
    /\ taken \o queue = pushed
    /\ \A n \in DOMAIN pushed : Count(pushed, pushed[n]) = 1
    /\ \A n \in DOMAIN handled : InSeq(taken, handled[n]) /\ Count(handled, handled[n]) = 1
    /\ IsPrefix(SelectSeq(handled, IsDiscrete), SelectSeq(taken, IsDiscrete))
    /\ rpc \notin {"drain", "handle"} =>
          SelectSeq(handled, IsDiscrete) = SelectSeq(taken, IsDiscrete)

C13_Witness ==
    /\ rpc = "process"
    /\ Len(pushed) = MaxPush
    /\ taken = pushed
    /\ pushed[1].kind = "SetMasterVolume"
    /\ pushed[2].kind = "PlayNote"
    /\ pushed[3].kind = "SetMasterVolume"
    /\ handled = <<pushed[2], pushed[3]>>

\* A step in which a push begins to report the full queue.
FullPushStep == pushres' = "Full" /\ pushres # "Full"
QueueStep ==
    /\ FullPushStep =>
          /\ Len(queue) = QueueCap
          /\ queue' = queue
          /\ synth' = synth
          /\ pushed' = pushed
    /\ pushed' # pushed =>
          /\ Len(queue) < QueueCap
          /\ pushres' = "Ok"
          /\ queue' = Append(queue, pushed'[Len(pushed')])
    /\ taken' # taken =>
          /\ taken' = Append(taken, Head(queue))
          /\ queue' = Tail(queue)

\* C14: the queue never holds more than its capacity; a push onto a full
\* queue is answered at once with the queue-full failure and leaves the queue,
\* the parameter cells and the graph as they were; a push that succeeds puts
\* the event at the back, a pop takes the front, so the events are popped in
\* the order they were pushed.
C14_BoundedFifo ==
    /\ [](/\ Len(queue) <= QueueCap
          /\ IsPrefix(taken, pushed)
          /\ Len(queue) = QueueCap => ENABLED PushFull)
    /\ [][QueueStep]_vars

C14_Witness ==
    /\ pushres = "Full"
    /\ Len(queue) = QueueCap
    /\ Len(taken) = 1
    /\ rpc = "drain"

\* A step of the render context, wherever it is.
RenderStep ==
    \/ RenderLock
    \/ RenderContended
    \/ RenderSilentReturn
    \/ FillBufferEnter
    \/ RenderPop
    \/ RenderDrained
    \/ RenderHandle
    \/ RenderHandled
    \/ RenderProcess
    \/ RenderReturn

\* C15: the render context never waits for the synth mutex: in every state,
\* also while a control context is inside replace/commit under the lock, the
\* callback has a step it can take; it runs fill_buffer only holding the
\* mutex it found free, and when a control context holds the mutex it emits
\* a buffer of silence and takes no lock.
C15_RenderNeverWaits ==
    /\ ENABLED RenderStep
    /\ rpc \notin {"idle", "silent"} => mutex = "render"
    /\ rpc \in {"idle", "silent"} => mutex # "render"
    /\ rpc = "silent" =>
          /\ Len(output) = outlen
          /\ \A k \in DOMAIN output : output[k] = 0

C15_Witness ==
    /\ rpc = "silent"
    /\ mutex = "control"
    /\ cpc = "replaced"
    /\ synth.net.uncommitted
    /\ outlen = MaxOutLen

\* The closed set of waveform names, and what a string names when letter case
\* is disregarded ("None" when it is none of them).
WaveformName(w) ==
    CASE w = "Sine" -> <<"s", "i", "n", "e">>
      [] w = "Square" -> <<"s", "q", "u", "a", "r", "e">>
      [] w = "Sawtooth" -> <<"s", "a", "w", "t", "o", "o", "t", "h">>
      [] w = "Triangle" -> <<"t", "r", "i", "a", "n", "g", "l", "e">>
SameButCase(str, name) ==
    /\ Len(str) = Len(name)
    /\ \A n \in 1..Len(name) : str[n] = name[n] \/ str[n] = to_uppercase_char(name[n])
Named(str) ==
    IF \E w \in Waveforms : SameButCase(str, WaveformName(w))
    THEN CHOOSE w \in Waveforms : SameButCase(str, WaveformName(w))
    ELSE "None"
ErrResults == {"Err(Invalid waveform)", "Err(Failed to initialize audio)"}

\* C16: Waveform::from_str maps a string to the variant whose name it is when
\* letter case is disregarded (sine, square, sawtooth, triangle) and every
\* other string to None; a call that parsed its name goes on only with that
\* variant; audio::set_waveform returns Err for every string from_str rejects.
C16_FromStrExact ==
    /\ from_str(arg) = Named(arg)
    /\ apc \in {"apply", "send"} => aw = Named(arg) /\ aw \in Waveforms
    /\ (afn = "audio::set_waveform" /\ apc = "done" /\ Named(arg) = "None") =>
          ares \in ErrResults

C16_Witness ==
    /\ arg = <<"S", "a", "W", "t", "O", "o", "T", "h">>
    /\ afn = "audio::set_waveform"
    /\ apc = "done"
    /\ ares = "Ok"
    /\ aw = "Sawtooth"
    /\ synth.current_waveform = "Sawtooth"

\* C17: a call of commands::set_waveform or audio::set_waveform with a name
\* outside the closed set ends with an explicit error value: it does not
\* panic, it leaves the waveform as it was, and it passes no SetWaveform
\* request on to the engine.
C17_UnknownNameIsError ==
    (apc = "done" /\ Named(arg) = "None") =>
        /\ ares \in ErrResults
        /\ issued = <<>>
        /\ synth.current_waveform = "Sine"

NoteOffEvent == Ev("NoteOff", 0, "-")
\* The synth after one more NoteOff, and after two.
OnceOff == handle_event(FreshLog(synth), NoteOffEvent).synth
TwiceOff == handle_event(FreshLog(OnceOff), NoteOffEvent).synth

\* C18: from every reachable state, handling NoteOff twice in a row leaves the
\* synth (gate, frequency, every parameter cell, waveform, graph) exactly as
\* handling it once does, with the gate at 0; and in a run, a NoteOff handled
\* right after a NoteOff changes nothing.
C18_NoteOffIdempotent ==
    /\ [](TwiceOff = OnceOff /\ OnceOff.key_down_var = 0)
    /\ [][(last.event.kind = "NoteOff" /\ last'.event.kind = "NoteOff" /\ ncalls' # ncalls)
              => synth' = synth]_vars

C18_Witness ==
    /\ last.event.kind = "NoteOff"
    /\ last.before.key_down_var = 1000
    /\ last.before.frequency_var = 500
    /\ synth.key_down_var = 0
    /\ TwiceOff = synth

\* The configurations of a sweep in the order they are to be tried: the rate
\* 48000 before 44100 and, under each rate, the buffer sizes as listed; the
\* shared-mode sweep has the one size 64.
SweepPlan(strategy) ==
    IF strategy = 3
    THEN <<(<<48000, 64>>), (<<44100, 64>>)>>
    ELSE [n \in 1..(2 * Len(buffer_sizes)) |->
             <<(IF n <= Len(buffer_sizes) THEN 48000 ELSE 44100),
               buffer_sizes[((n - 1) % Len(buffer_sizes)) + 1]>>]
PlaceInSweep(a) ==
    CHOOSE n \in DOMAIN SweepPlan(a.strategy) :
        SweepPlan(a.strategy)[n] = <<a.sample_rate, a.buffer_size>>
AttemptInOrder ==
    /\ attempt'.strategy \in 1..3
    /\ \E n \in DOMAIN SweepPlan(attempt'.strategy) :
          SweepPlan(attempt'.strategy)[n] = <<attempt'.sample_rate, attempt'.buffer_size>>
    /\ IF attempt'.strategy = attempt.strategy
       THEN PlaceInSweep(attempt') = PlaceInSweep(attempt) + 1
       ELSE attempt'.strategy > attempt.strategy /\ PlaceInSweep(attempt') = 1
    /\ attempt'.strategy = 2 => opened[1] = {}
    /\ attempt'.strategy = 3 => opened[1] = {} /\ opened[2] = {} /\ attempt'.buffer_size = 64

\* C19: every open attempted follows the strategy order: an open of the
\* power-saving exclusive sweep is made only when no open of the low-latency
\* exclusive sweep succeeded, an open in shared mode (64 frames only) only
\* when no open of either exclusive sweep succeeded; within a sweep the
\* attempts go through 48000 then 44100 and, under each, the buffer sizes in
\* the listed order, starting at the first.
C19_StrategyOrder == [][nattempts' # nattempts => AttemptInOrder]_vars

C19_Witness ==
    /\ nattempts = 22
    /\ attempt = [strategy |-> 3, sample_rate |-> 44100, buffer_size |-> 64, ok |-> TRUE]
    /\ stream.strategy = 3
    /\ opened[1] = {}
    /\ opened[2] = {}

\* The latency a stream realizes: its frames per callback over its sample rate.
Realized(st) == latency_of(st.frames, st.rate)
SweepOver(strategy) ==
    CASE strategy = 1 -> npc # "strategy1"
      [] strategy = 2 -> npc # "strategy2"
      [] strategy = 3 -> npc # "strategy3"

\* C20: once a sweep is over, the stream kept from it is one of the opens that
\* succeeded in it and none of those has a lower realized latency
\* (actual frames / actual sample rate), whatever the backend reported.
C20_KeptIsLowestRealized ==
    (stream # NoStream /\ SweepOver(stream.strategy)) =>
        /\ Realized(stream) \in opened[stream.strategy]
        /\ \A l \in opened[stream.strategy] : Realized(stream) <= l

AnyOpened == \E k \in 1..3 : opened[k] # {}

\* C21: when initialize_audio_engine has returned, it returned an error if and
\* only if no open of any strategy succeeded; after a successful open it
\* returned Ok and holds a started stream.
C21_ErrIffNothingOpened ==
    npc = "returned" =>
        /\ nres # "Ok" <=> ~AnyOpened
        /\ AnyOpened => stream # NoStream

\* The backend has accepted one open only, the one in shared mode at
\* 44100 Hz and 64 frames, and has granted it the rate requested.
OnlySharedAt44100 ==
    /\ nok = 1
    /\ attempt = [strategy |-> 3, sample_rate |-> 44100, buffer_size |-> 64, ok |-> TRUE]
    /\ opened[3] \subseteq {latency_of(f, 44100) : f \in ActualFrames}

\* C22: with a backend that accepts only (44100 Hz, 64 frames, shared), the
\* negotiation has made all 20 exclusive attempts and the 48000 Hz shared one
\* before, and ends holding the shared 44100 Hz, 64 frame stream, with
\* best_latency equal to that stream's realized latency.
C22_OnlySharedAccepted ==
    (OnlySharedAt44100 /\ npc \in {"final", "start"}) =>
        /\ nattempts = 2 * 2 * Len(buffer_sizes) + 2
        /\ opened[1] = {}
        /\ opened[2] = {}
        /\ stream.strategy = 3
        /\ stream.sample_rate = 44100
        /\ stream.buffer_size = 64
        /\ stream.rate = 44100
        /\ best_latency = Realized(stream)
        /\ final_sample_rate = 44100

C22_Witness ==
    /\ OnlySharedAt44100
    /\ npc = "start"
    /\ stream = [strategy |-> 3, sample_rate |-> 44100, buffer_size |-> 64,
                 frames |-> 64, rate |-> 44100]

Halted == {"Paused", "Stopped"}

\* C23: in the keeper loop an iteration that reads Paused or Stopped calls
\* stream.start(), and only such an iteration does; whatever start() returns
\* the thread goes on to its sleep and to the next iteration, so the loop
\* never ends (the stream it owns is never dropped), and a stream that stays
\* Paused or Stopped from some point on is restarted again and again.
C23_KeeperRestarts ==
    /\ [][kpc = "loop" /\ kpc' # "loop" => (kpc' = "start" <=> sstate \in Halted)]_vars
    /\ [][kpc = "start" /\ kpc' # "start" => kpc' = "sleep"]_vars
    /\ [](kpc \in {"loop", "start", "sleep"})
    /\ []<>(kpc = "loop")
    /\ (<>[](sstate \in Halted)) => []<>(kpc = "start")

C23_Witness ==
    /\ kpc = "start"
    /\ kstate \in Halted
    /\ kfailed = MaxLogged

\* The step by which caller t's run of AudioEngine::new ends in Err.
NewFails(t) == ipc[t] = "new" /\ ipc'[t] # "new" /\ nstarted' = nstarted
\* The step by which an entry point called by t returns, run while no engine is set.
ReturnsUnset(t) == ipc[t] = "get" /\ ipc'[t] = "done" /\ engine = "unset"

C25_SingleEngine == nstarted <= 1

\* The synth after handling the events of a sequence one after the other.
RECURSIVE HandleAll(_, _)
HandleAll(s, evs) ==
    IF evs = <<>> THEN s ELSE HandleAll(handle_event(FreshLog(s), Head(evs)).synth, Tail(evs))
\* The state of a synth: its cells, its waveform and its graph, not the edit log.
StateOf(s) == [s EXCEPT !.net.log = <<>>]

\* C26: when fill_buffer has handled the coalesced events of a burst, the
\* synth is in the state that handling every event of the burst in arrival
\* order would have left: same frequency, gate, cells, waveform and graph.
C26_CoalescedEffect ==
    (rpc = "process" /\ queue = <<>>) => StateOf(synth) = StateOf(HandleAll(SynthNew, taken))

\* The edits of one kind made by the fill_buffer call in progress.
Edits(name) == Cardinality({n \in DOMAIN edits : edits[n] = name})
IsReplace(name) == name \in {"replace_osc", "replace_adsr", "replace_delay"}

\* C30: in one fill_buffer call no continuous kind is handled twice, and the
\* handlers make at most one oscillator replacement, at most one delay-line
\* replacement and at most four envelope replacements, each of them followed
\* at once by a commit.
C30_BoundedEdits ==
    /\ \A kind \in ContinuousKinds :
          Cardinality(Positions(HandledNow, kind)) <= 1
    /\ Edits("replace_osc") <= 1
    /\ Edits("replace_delay") <= 1
    /\ Edits("replace_adsr") <= 4
    /\ \A n \in DOMAIN edits :
          IsReplace(edits[n]) => (n < Len(edits) /\ edits[n + 1] = "commit")

C30_Witness ==
    /\ rpc = "process"
    /\ Len(taken) = Len(EditBurst)
    /\ Len(handled) = 6
    /\ Edits("replace_osc") = 1
    /\ Edits("replace_delay") = 1
    /\ Edits("replace_adsr") = 4
    /\ Edits("commit") = 6

\* C27: whatever the producer does, a fill_buffer call that has begun to
\* drain the queue leaves the drain loop and reaches its chunk loop.
C27_DrainTerminates == (rpc = "drain") ~> (rpc = "process")

\* One pass of fill_buffer's chunk loop, and the loop's end.
ChunkPass == rpc = "process" /\ rpc' = "process" /\ output' # output
ChunkLoopEnds == rpc = "process" /\ rpc' = "idle"
Requested == Len(block') - Len(block)

\* C28: for every length of the output slice, each pass of the chunk loop
\* requests between 1 and MAX_BUFFER_SIZE samples from backend.process and
\* writes exactly those to the next indices of the slice, leaving the ones
\* written before as they are and staying inside the slice; while indices
\* are left a pass can be taken; and the loop ends exactly when all
\* output.len() samples have been requested and written.
C28_ChunkLoop ==
    /\ [][ChunkPass =>
            /\ Requested \in 1..MAX_BUFFER_SIZE
            /\ Len(output') = Len(output) + Requested
            /\ IsPrefix(output, output')
            /\ Len(output') <= outlen]_vars
    /\ [][ChunkLoopEnds => (Len(output) = outlen /\ Len(block) = outlen)]_vars
    /\ [](rpc = "process" =>
            /\ Len(output) <= outlen
            /\ Len(output) < outlen => ENABLED RenderProcess
            /\ Len(output) = outlen => ENABLED RenderReturn)

C28_Witness ==
    /\ rpc = "process"
    /\ outlen = MAX_BUFFER_SIZE + 1
    /\ Len(output) = outlen
    /\ Len(block) = outlen

\* The graph a synth's cells and waveform call for.
GraphOf(s) ==
    [osc |-> create_oscillator(s.current_waveform),
     adsr |-> adsr_live(s.attack_var, s.decay_var, s.sustain_var, s.release_var),
     delay |-> delay(s.delay_time_var)]

\* C29: after FunDSPSynth::new and after every handle_event call the
\* committed graph has the envelope built from the current four ADSR cells,
\* the delay line built from the current delay-time cell and the oscillator
\* of current_waveform, and the frontend holds no edit that is not committed.
C29_GraphMatchesCells ==
    /\ synth.backend = GraphOf(synth)
    /\ ~synth.net.uncommitted
    /\ [osc |-> synth.net.osc, adsr |-> synth.net.adsr, delay |-> synth.net.delay] = GraphOf(synth)

C29_Witness ==
    /\ ncalls = 2
    /\ last.event = Ev("SetDelayTime", 1500, "-")
    /\ synth.backend.delay = delay(1500)
    /\ synth.backend.adsr = adsr_live(20, 200, 1000, 300)
    /\ synth.sustain_var = 1000

\* The typed value that holds the parameter a Get* event asks for.
CurrentValue(kind, s) ==
    CASE kind = "GetMasterVolume" -> ValueF32(s.master_volume_var)
      [] kind = "GetWaveform" -> ValueWaveform(s.current_waveform)
      [] kind = "GetAttack" -> ValueF32(s.attack_var)
      [] kind = "GetDecay" -> ValueF32(s.decay_var)
      [] kind = "GetSustain" -> ValueF32(s.sustain_var)
      [] kind = "GetRelease" -> ValueF32(s.release_var)
      [] kind = "GetDelayTime" -> ValueF32(s.delay_time_var)
      [] kind = "GetDelayFeedback" -> ValueF32(s.delay_feedback_var)
      [] kind = "GetDelayMix" -> ValueF32(s.delay_mix_var)
      [] kind = "GetFilterCutoff" -> ValueF32(s.filter_cutoff_var)
      [] kind = "GetFilterResonance" -> ValueF32(s.filter_resonance_var)

\* C31: every Get* event returns the current value of its parameter
\* (ValueF32, ValueWaveform for GetWaveform) and leaves every cell, the gate,
\* the waveform and the graph as they were; every PlayNote, NoteOff and Set*
\* event returns Ok; handle_event never returns Err.
C31_ResultAndFrame ==
    ncalls > 0 =>
        /\ last.result.tag \in {"Ok", "ValueF32", "ValueWaveform"}
        /\ last.event.kind \in QueryKinds =>
              /\ last.result = CurrentValue(last.event.kind, last.before)
              /\ StateOf(synth) = StateOf(last.before)
              /\ synth.net.log = <<>>
        /\ last.event.kind \notin QueryKinds => last.result = ResultOk

C31_Witness ==
    /\ ncalls = 2
    /\ last.event.kind = "GetMasterVolume"
    /\ last.before.master_volume_var = 500
    /\ last.result = ValueF32(500)
    /\ synth.master_volume_var = 500

\* C32: a call of audio::set_waveform with a name that Waveform::from_str
\* rejects returns Err and changes no engine state: the waveform and the
\* graph stay as they were and the global engine is not created by the
\* failing call. (The name of a run is fixed, so with a rejected name every
\* call of audio::set_waveform fails and the engine, unset at the start, can
\* only have been created by a failing call.)
C32_RejectedChangesNothing ==
    (from_str(arg) = "None" /\ afn = "audio::set_waveform" /\ apc = "done") =>
        /\ ares \in {"Err(Invalid waveform)", "Err(Failed to initialize audio)"}
        /\ StateOf(synth) = StateOf(SynthNew)
        /\ engine = "unset"

\* C33: Waveform::from_str(w.as_str()) is Some(w) for every Waveform w; after
\* SetWaveform{w} is handled get_waveform returns w; and SetWaveform{w} with
\* w already the current waveform replaces no node, commits nothing and
\* leaves all state as it was.
C33_WaveformRoundTrip ==
    /\ \A w \in Waveforms : from_str(as_str(w)) = w
    /\ (ncalls > 0 /\ last.event.kind = "SetWaveform") =>
          /\ get_waveform(synth) = last.event.w
          /\ from_str(as_str(get_waveform(synth))) = last.event.w
          /\ last.event.w = last.before.current_waveform =>
                /\ synth.net.log = <<>>
                /\ StateOf(synth) = StateOf(last.before)

C33_Witness ==
    /\ ncalls = 2
    /\ last.event = Ev("SetWaveform", 0, "Sawtooth")
    /\ last.before.current_waveform = "Sawtooth"
    /\ from_str(as_str(get_waveform(synth))) = "Sawtooth"
    /\ synth.net.log = <<>>

\* A frequency an oscillator can be run at: finite and above 0 Hz.
ValidFrequency(f) == IsFinite(f) /\ f > 0

\* C34: every value an event carries is validated before it is stored: after
\* PlayNote{f} or SetFrequency{f} the frequency cell holds a finite frequency
\* inside its domain, and after a Set* of a clamped parameter the cell holds
\* a value of the parameter's domain, whatever the payload was.
C34_ValidatedWrites ==
    ncalls > 0 =>
        /\ last.event.kind \in {"PlayNote", "SetFrequency"} =>
              ValidFrequency(synth.frequency_var)
        /\ last.event.kind \in ClampedKinds =>
              /\ FLe(Lo(last.event.kind), Getter(last.event.kind, synth))
              /\ FLe(Getter(last.event.kind, synth), Hi(last.event.kind))

\* The value a getter returns on an engine that was just initialized, with
\* no setter called.
FreshValue(fn) == handle_event(SynthNew, EngineCallOf(fn)).result

\* C35: for every parameter getter of the audio module the value returned
\* while the global engine is not initialized is the value the same getter
\* returns right after a successful initialization with no setter called.
C35_DefaultsAgree ==
    \A t \in Callers :
        (ipc[t] = "done" /\ ifn[t] \in Getters /\ engine = "unset") =>
            ires[t] = FreshValue(ifn[t])

\* C36: at every point of the negotiation at most one stream is open and it
\* is the one the variable `stream` holds: every opened stream that was not
\* kept, or that a better one replaced, has been released; and when the
\* function has returned Ok exactly one stream is open, the one handed to
\* the keeper thread.
C36_OneStreamHeld ==
    /\ Cardinality(live) <= 1
    /\ live = IF stream = NoStream THEN {} ELSE {stream}
    /\ (npc = "returned" /\ nres = "Ok") => (stream # NoStream /\ live = {stream})

C36_Witness ==
    /\ npc = "returned"
    /\ nres = "Ok"
    /\ nok >= 3
    /\ live = {stream}
    /\ stream.strategy = 1
    /\ stream.buffer_size = 24

\* The step by which on_audio_ready runs from its load of the frequency to its return.
CallbackRuns == opc = "loaded" /\ opc' = "idle"
\* The paths on which on_audio_ready generates for a note that is on.
Generating == {"fundsp", "attack"}
\* A raw frequency the callback is to treat as 0.
Invalid(raw_frequency) ==
    ~IsFinite(raw_frequency) \/ raw_frequency <= 0 \/ raw_frequency >= 20000000

\* C37: for every sequence of callbacks and of values of is_playing and
\* frequency_bits the envelope stays within [0, 1], the phase within [0, 1)
\* and every sample written has magnitude at most 0.5; a frequency that is
\* non-finite, <= 0 or >= 20000 Hz is treated as 0 and starts no generation.
C37_CallbackBounds ==
    /\ [](0 <= callback.envelope /\ callback.envelope <= EnvelopeOne)
    /\ [](0 <= callback.phase /\ callback.phase < PhaseOne)
    /\ [](\A k \in DOMAIN cb_frames : IsFinite(cb_frames[k]) /\ Abs(cb_frames[k]) <= 500)
    /\ [][(CallbackRuns /\ Invalid(from_bits(frequency_bits.v))) =>
            /\ validate(from_bits(frequency_bits.v)) = 0
            /\ ran' \notin Generating
            /\ callback'.envelope <= callback.envelope]_vars

C37_Witness ==
    /\ opc = "idle"
    /\ ran = "fade"
    /\ ~callback.use_fundsp
    /\ callback.sample_rate = 44100
    /\ callback.envelope = EnvelopeOne - callback.fade_step
    /\ callback.phase = 7
    /\ ~is_playing.v
    /\ from_bits(frequency_bits.v) = 6000000
    /\ Len(cb_frames) = MaxFrames
    /\ cb_frames[1] < 0

\* C38: when is_playing has gone from true to false while sound was being
\* produced, the next callback still produces sound, scaled by an envelope
\* that is fade_step lower, on every generation path: the output is not cut
\* to silence in the first callback after the stop.
C38_ReleaseNotHardStop ==
    [][(CallbackRuns /\ ran \in Generating /\ ~playing.v) =>
          /\ ran' = "fade"
          /\ callback'.envelope > 0
          /\ callback'.envelope = callback.envelope - callback.fade_step]_vars

\* The step by which nativeStopNote runs.
StopNoteRuns == jpc = "idle" /\ jpc' = "idle" /\ sbuf' # sbuf /\ Len(sbuf') > Len(sbuf)

\* C39: a callback that observes the is_playing = true stored by
\* nativePlayNote(f) generates with f or with the frequency of a later
\* nativePlayNote, never with a frequency stored before that trigger; and
\* nativeStopNote stores to is_playing only.
C39_TriggerConsistent ==
    /\ [][(CallbackRuns /\ playing.v) => frequency_bits.by >= playing.by]_vars
    /\ [][StopNoteRuns =>
            /\ sbuf'[Len(sbuf')].loc = "is_playing"
            /\ UNCHANGED <<is_playing, frequency_bits>>]_vars

====
